---------------------------- MODULE Spec2Model ----------------------------
(***************************************************************************)
(* A model of include/vulkan/vk_layer_logging.h: the debug_report_data     *)
(* object (callback list, aggregate severity/type masks, object name maps, *)
(* queue and command buffer label maps) and the functions that operate on  *)
(* it.                                                                     *)
(*                                                                         *)
(* Representation.                                                         *)
(*  - A VkFlags bit mask is the set of the names of its set bits: `|' is   *)
(*    \cup, `&' is \cap and `!= 0' is `# {}'.                              *)
(*  - A `const char *' is a sequence of length at most one: NULL is << >>  *)
(*    and a pointer to the string s is <<s>>; "" is the empty string.      *)
(*  - A composed message (std::string built by insert/+=) is the sequence  *)
(*    of the pieces it was built from.                                     *)
(*  - A 64 bit handle is a record [base, off]: base "NULL" is the null     *)
(*    handle, base "driver" a value handed out by the driver, and any      *)
(*    other base is a heap buffer of the callback vector, off being the    *)
(*    slot inside it (the address of a VkLayerDbgFunctionState).           *)
(***************************************************************************)
EXTENDS Naturals, Sequences, FiniteSets

VARIABLES
    debug_callback_list,      \* std::vector<VkLayerDbgFunctionState>
    list_capacity,            \* debug_callback_list.capacity()
    list_buffer,              \* heap buffer debug_callback_list.data() points into
    active_severities,        \* VkDebugUtilsMessageSeverityFlagsEXT
    active_types,             \* VkDebugUtilsMessageTypeFlagsEXT
    debugObjectNameMap,       \* names set through VK_EXT_debug_marker
    debugUtilsObjectNameMap,  \* names set through VK_EXT_debug_utils
    debugUtilsQueueLabels,    \* VkQueue -> LoggingLabelState
    debugUtilsCmdBufLabels,   \* VkCommandBuffer -> LoggingLabelState
    named_marker,             \* history: name last given per handle, legacy scheme
    named_utils,              \* history: name last given per handle, modern scheme
    last,                     \* history: the last call and what it returned
    instance_pnext_chain,     \* const void *: the pNext chain of the instance create info
    removed_all,              \* history: the list was cleared and nothing registered since
    debug_output_mutex,       \* std::mutex: the thread that owns it, or NoThread
    pc                        \* per thread: the function it is in and where

regVars   == <<debug_callback_list, list_capacity, list_buffer,
               active_severities, active_types, instance_pnext_chain, removed_all>>
nameVars  == <<debugObjectNameMap, debugUtilsObjectNameMap, named_marker, named_utils>>
labelVars == <<debugUtilsQueueLabels, debugUtilsCmdBufLabels>>
thrVars   == <<debug_output_mutex, pc>>
vars      == <<regVars, nameVars, labelVars, last, thrVars>>

-----------------------------------------------------------------------------
(* Bounds of the model *)

\* largest number of entries the callback list is grown to
MaxCallbacks == 2

\* largest number of labels held by all label states together
MaxLabels == 2

-----------------------------------------------------------------------------
(* Flag bits *)

VK_DEBUG_REPORT_INFORMATION_BIT_EXT         == {"REPORT_INFORMATION"}
VK_DEBUG_REPORT_WARNING_BIT_EXT             == {"REPORT_WARNING"}
VK_DEBUG_REPORT_PERFORMANCE_WARNING_BIT_EXT == {"REPORT_PERFORMANCE_WARNING"}
VK_DEBUG_REPORT_ERROR_BIT_EXT               == {"REPORT_ERROR"}
VK_DEBUG_REPORT_DEBUG_BIT_EXT               == {"REPORT_DEBUG"}

VK_DEBUG_UTILS_MESSAGE_SEVERITY_VERBOSE_BIT_EXT == {"SEVERITY_VERBOSE"}
VK_DEBUG_UTILS_MESSAGE_SEVERITY_INFO_BIT_EXT    == {"SEVERITY_INFO"}
VK_DEBUG_UTILS_MESSAGE_SEVERITY_WARNING_BIT_EXT == {"SEVERITY_WARNING"}
VK_DEBUG_UTILS_MESSAGE_SEVERITY_ERROR_BIT_EXT   == {"SEVERITY_ERROR"}

VK_DEBUG_UTILS_MESSAGE_TYPE_GENERAL_BIT_EXT     == {"TYPE_GENERAL"}
VK_DEBUG_UTILS_MESSAGE_TYPE_VALIDATION_BIT_EXT  == {"TYPE_VALIDATION"}
VK_DEBUG_UTILS_MESSAGE_TYPE_PERFORMANCE_BIT_EXT == {"TYPE_PERFORMANCE"}

DEBUG_CALLBACK_UTILS    == {"UTILS"}
DEBUG_CALLBACK_DEFAULT  == {"DEFAULT"}
DEBUG_CALLBACK_INSTANCE == {"INSTANCE"}

NoFlags == {}

-----------------------------------------------------------------------------
(* Pointers, handles *)

NULL == << >>

VK_NULL_HANDLE == [base |-> "NULL", off |-> 0]

\* a handle value handed out by the driver
DriverHandle(n) == [base |-> "driver", off |-> n]

\* reinterpret_cast<handle>(&callback_state): the address of slot `slot' of buffer `buf'
AddressOf(buf, slot) == [base |-> buf, off |-> slot]

\* heap buffers the allocator can hand to the callback vector
Buffers == {"bufA", "bufB"}

NoBuffer == "none"

-----------------------------------------------------------------------------
(* VkLayerDbgFunctionState *)

\* VkLayerDbgFunctionState(): every member zero
ZeroState ==
    [callback_status                    |-> NoFlags,
     debug_report_callback_object       |-> VK_NULL_HANDLE,
     debug_report_callback_function_ptr |-> NULL,
     debug_report_msg_flags             |-> NoFlags,
     debug_utils_callback_object        |-> VK_NULL_HANDLE,
     debug_utils_msg_flags              |-> NoFlags,
     debug_utils_msg_type               |-> NoFlags,
     debug_utils_callback_function_ptr  |-> NULL,
     pUserData                          |-> NULL]

IsUtils(item)    == (item.callback_status \cap DEBUG_CALLBACK_UTILS) # {}
IsDefault(item)  == (item.callback_status \cap DEBUG_CALLBACK_DEFAULT) # {}
IsInstance(item) == (item.callback_status \cap DEBUG_CALLBACK_INSTANCE) # {}

-----------------------------------------------------------------------------
(* Flag translation *)

\* faulty variant of DebugReportFlagsToAnnotFlags: an else-if chain, so only the
\* first bit that is set is translated; C31 must reject it
DebugReportFlagsToAnnotFlags_FirstMatch(dr_flags) ==
    IF (dr_flags \cap VK_DEBUG_REPORT_PERFORMANCE_WARNING_BIT_EXT) # {}
    THEN [da_severity |-> VK_DEBUG_UTILS_MESSAGE_SEVERITY_WARNING_BIT_EXT,
          da_type     |-> VK_DEBUG_UTILS_MESSAGE_TYPE_PERFORMANCE_BIT_EXT]
    ELSE IF (dr_flags \cap VK_DEBUG_REPORT_DEBUG_BIT_EXT) # {}
    THEN [da_severity |-> VK_DEBUG_UTILS_MESSAGE_SEVERITY_VERBOSE_BIT_EXT,
          da_type     |-> VK_DEBUG_UTILS_MESSAGE_TYPE_GENERAL_BIT_EXT
                          \cup VK_DEBUG_UTILS_MESSAGE_TYPE_VALIDATION_BIT_EXT]
    ELSE IF (dr_flags \cap VK_DEBUG_REPORT_INFORMATION_BIT_EXT) # {}
    THEN [da_severity |-> VK_DEBUG_UTILS_MESSAGE_SEVERITY_INFO_BIT_EXT,
          da_type     |-> VK_DEBUG_UTILS_MESSAGE_TYPE_VALIDATION_BIT_EXT]
    ELSE IF (dr_flags \cap VK_DEBUG_REPORT_WARNING_BIT_EXT) # {}
    THEN [da_severity |-> VK_DEBUG_UTILS_MESSAGE_SEVERITY_WARNING_BIT_EXT,
          da_type     |-> VK_DEBUG_UTILS_MESSAGE_TYPE_VALIDATION_BIT_EXT]
    ELSE IF (dr_flags \cap VK_DEBUG_REPORT_ERROR_BIT_EXT) # {}
    THEN [da_severity |-> VK_DEBUG_UTILS_MESSAGE_SEVERITY_ERROR_BIT_EXT,
          da_type     |-> VK_DEBUG_UTILS_MESSAGE_TYPE_VALIDATION_BIT_EXT]
    ELSE [da_severity |-> NoFlags, da_type |-> NoFlags]

\* faulty variant of DebugReportFlagsToAnnotFlags: the debug bit gives the type
\* General only; C16 must reject it
DebugReportFlagsToAnnotFlags_DebugGeneralOnly(dr_flags) ==
    LET perf  == (dr_flags \cap VK_DEBUG_REPORT_PERFORMANCE_WARNING_BIT_EXT) # {}
        debug == (dr_flags \cap VK_DEBUG_REPORT_DEBUG_BIT_EXT) # {}
        info  == (dr_flags \cap VK_DEBUG_REPORT_INFORMATION_BIT_EXT) # {}
        warn  == (dr_flags \cap VK_DEBUG_REPORT_WARNING_BIT_EXT) # {}
        err   == (dr_flags \cap VK_DEBUG_REPORT_ERROR_BIT_EXT) # {}
    IN  [da_severity |->
              (IF perf  THEN VK_DEBUG_UTILS_MESSAGE_SEVERITY_WARNING_BIT_EXT ELSE {})
         \cup (IF debug THEN VK_DEBUG_UTILS_MESSAGE_SEVERITY_VERBOSE_BIT_EXT ELSE {})
         \cup (IF info  THEN VK_DEBUG_UTILS_MESSAGE_SEVERITY_INFO_BIT_EXT ELSE {})
         \cup (IF warn  THEN VK_DEBUG_UTILS_MESSAGE_SEVERITY_WARNING_BIT_EXT ELSE {})
         \cup (IF err   THEN VK_DEBUG_UTILS_MESSAGE_SEVERITY_ERROR_BIT_EXT ELSE {}),
         da_type |->
              (IF perf  THEN VK_DEBUG_UTILS_MESSAGE_TYPE_PERFORMANCE_BIT_EXT ELSE {})
         \cup (IF debug THEN VK_DEBUG_UTILS_MESSAGE_TYPE_GENERAL_BIT_EXT ELSE {})
         \cup (IF info  THEN VK_DEBUG_UTILS_MESSAGE_TYPE_VALIDATION_BIT_EXT ELSE {})
         \cup (IF warn  THEN VK_DEBUG_UTILS_MESSAGE_TYPE_VALIDATION_BIT_EXT ELSE {})
         \cup (IF err   THEN VK_DEBUG_UTILS_MESSAGE_TYPE_VALIDATION_BIT_EXT ELSE {})]

\* DebugReportFlagsToAnnotFlags: the values stored in *da_severity and *da_type,
\* both set to 0 first
DebugReportFlagsToAnnotFlags(dr_flags) ==
    LET perf  == (dr_flags \cap VK_DEBUG_REPORT_PERFORMANCE_WARNING_BIT_EXT) # {}
        debug == (dr_flags \cap VK_DEBUG_REPORT_DEBUG_BIT_EXT) # {}
        info  == (dr_flags \cap VK_DEBUG_REPORT_INFORMATION_BIT_EXT) # {}
        warn  == (dr_flags \cap VK_DEBUG_REPORT_WARNING_BIT_EXT) # {}
        err   == (dr_flags \cap VK_DEBUG_REPORT_ERROR_BIT_EXT) # {}
    IN  [da_severity |->
              (IF perf  THEN VK_DEBUG_UTILS_MESSAGE_SEVERITY_WARNING_BIT_EXT ELSE {})
         \cup (IF debug THEN VK_DEBUG_UTILS_MESSAGE_SEVERITY_VERBOSE_BIT_EXT ELSE {})
         \cup (IF info  THEN VK_DEBUG_UTILS_MESSAGE_SEVERITY_INFO_BIT_EXT ELSE {})
         \cup (IF warn  THEN VK_DEBUG_UTILS_MESSAGE_SEVERITY_WARNING_BIT_EXT ELSE {})
         \cup (IF err   THEN VK_DEBUG_UTILS_MESSAGE_SEVERITY_ERROR_BIT_EXT ELSE {}),
         da_type |->
              (IF perf  THEN VK_DEBUG_UTILS_MESSAGE_TYPE_PERFORMANCE_BIT_EXT ELSE {})
         \cup (IF debug THEN VK_DEBUG_UTILS_MESSAGE_TYPE_GENERAL_BIT_EXT
                             \cup VK_DEBUG_UTILS_MESSAGE_TYPE_VALIDATION_BIT_EXT ELSE {})
         \cup (IF info  THEN VK_DEBUG_UTILS_MESSAGE_TYPE_VALIDATION_BIT_EXT ELSE {})
         \cup (IF warn  THEN VK_DEBUG_UTILS_MESSAGE_TYPE_VALIDATION_BIT_EXT ELSE {})
         \cup (IF err   THEN VK_DEBUG_UTILS_MESSAGE_TYPE_VALIDATION_BIT_EXT ELSE {})]

\* faulty variant of DebugAnnotFlagsToReportFlags: a warning is never reported as
\* a performance warning; C15 must reject it
DebugAnnotFlagsToReportFlags_NoPerformance(da_severity, da_type) ==
    IF (da_severity \cap VK_DEBUG_UTILS_MESSAGE_SEVERITY_ERROR_BIT_EXT) # {}
    THEN VK_DEBUG_REPORT_ERROR_BIT_EXT
    ELSE IF (da_severity \cap VK_DEBUG_UTILS_MESSAGE_SEVERITY_WARNING_BIT_EXT) # {}
    THEN VK_DEBUG_REPORT_WARNING_BIT_EXT
    ELSE IF (da_severity \cap VK_DEBUG_UTILS_MESSAGE_SEVERITY_INFO_BIT_EXT) # {}
    THEN VK_DEBUG_REPORT_INFORMATION_BIT_EXT
    ELSE IF (da_severity \cap VK_DEBUG_UTILS_MESSAGE_SEVERITY_VERBOSE_BIT_EXT) # {}
    THEN VK_DEBUG_REPORT_DEBUG_BIT_EXT
    ELSE NoFlags

\* faulty variant of DebugAnnotFlagsToReportFlags: every matching severity adds
\* its bit (if in place of else if); C17 must reject it
DebugAnnotFlagsToReportFlags_Accumulate(da_severity, da_type) ==
         (IF (da_severity \cap VK_DEBUG_UTILS_MESSAGE_SEVERITY_ERROR_BIT_EXT) # {}
          THEN VK_DEBUG_REPORT_ERROR_BIT_EXT ELSE {})
    \cup (IF (da_severity \cap VK_DEBUG_UTILS_MESSAGE_SEVERITY_WARNING_BIT_EXT) # {}
          THEN IF (da_type \cap VK_DEBUG_UTILS_MESSAGE_TYPE_PERFORMANCE_BIT_EXT) # {}
               THEN VK_DEBUG_REPORT_PERFORMANCE_WARNING_BIT_EXT
               ELSE VK_DEBUG_REPORT_WARNING_BIT_EXT
          ELSE {})
    \cup (IF (da_severity \cap VK_DEBUG_UTILS_MESSAGE_SEVERITY_INFO_BIT_EXT) # {}
          THEN VK_DEBUG_REPORT_INFORMATION_BIT_EXT ELSE {})
    \cup (IF (da_severity \cap VK_DEBUG_UTILS_MESSAGE_SEVERITY_VERBOSE_BIT_EXT) # {}
          THEN VK_DEBUG_REPORT_DEBUG_BIT_EXT ELSE {})

\* DebugAnnotFlagsToReportFlags: the value stored in *dr_flags
DebugAnnotFlagsToReportFlags(da_severity, da_type) ==
    IF (da_severity \cap VK_DEBUG_UTILS_MESSAGE_SEVERITY_ERROR_BIT_EXT) # {}
    THEN NoFlags \cup VK_DEBUG_REPORT_ERROR_BIT_EXT
    ELSE IF (da_severity \cap VK_DEBUG_UTILS_MESSAGE_SEVERITY_WARNING_BIT_EXT) # {}
    THEN IF (da_type \cap VK_DEBUG_UTILS_MESSAGE_TYPE_PERFORMANCE_BIT_EXT) # {}
         THEN NoFlags \cup VK_DEBUG_REPORT_PERFORMANCE_WARNING_BIT_EXT
         ELSE NoFlags \cup VK_DEBUG_REPORT_WARNING_BIT_EXT
    ELSE IF (da_severity \cap VK_DEBUG_UTILS_MESSAGE_SEVERITY_INFO_BIT_EXT) # {}
    THEN NoFlags \cup VK_DEBUG_REPORT_INFORMATION_BIT_EXT
    ELSE IF (da_severity \cap VK_DEBUG_UTILS_MESSAGE_SEVERITY_VERBOSE_BIT_EXT) # {}
    THEN NoFlags \cup VK_DEBUG_REPORT_DEBUG_BIT_EXT
    ELSE NoFlags

-----------------------------------------------------------------------------
(* Callback registry *)

\* the masks one entry contributes to the aggregates
ItemSeverities(item) ==
    IF IsUtils(item) THEN item.debug_utils_msg_flags
    ELSE DebugReportFlagsToAnnotFlags(item.debug_report_msg_flags).da_severity

ItemTypes(item) ==
    IF IsUtils(item) THEN item.debug_utils_msg_type
    ELSE DebugReportFlagsToAnnotFlags(item.debug_report_msg_flags).da_type

\* faulty variant of SetDebugUtilsSeverityFlags: the aggregates are computed from
\* the entries alone (zeroed first, then |=); C26 must reject it
SetDebugUtilsSeverityFlags_Recompute(callbacks, severities, types) ==
    [active_severities |->
        UNION {ItemSeverities(callbacks[i]) : i \in DOMAIN callbacks},
     active_types |->
        UNION {ItemTypes(callbacks[i]) : i \in DOMAIN callbacks}]

\* SetDebugUtilsSeverityFlags: ORs every entry's masks into the aggregates it finds
SetDebugUtilsSeverityFlags(callbacks, severities, types) ==
    [active_severities |->
        severities \cup UNION {ItemSeverities(callbacks[i]) : i \in DOMAIN callbacks},
     active_types |->
        types \cup UNION {ItemTypes(callbacks[i]) : i \in DOMAIN callbacks}]

\* std::vector growth on emplace_back at full capacity (size + max(size, 1))
GrowCapacity(cap) == IF cap = 0 THEN 1 ELSE 2 * cap

\* faulty variant of FindCallback: the list is searched back to front, so the
\* last entry carrying the handle is found; C27 must reject it
FindCallback_Last(callbacks, callback) ==
    LET Matches(i) ==
            IF IsUtils(callbacks[i])
            THEN callbacks[i].debug_utils_callback_object = callback
            ELSE callbacks[i].debug_report_callback_object = callback
        hits == {i \in DOMAIN callbacks : Matches(i)}
    IN  IF hits = {} THEN 0 ELSE CHOOSE i \in hits : \A j \in hits : i >= j

\* the entry whose handle equals `callback', searched front to back (0: none)
FindCallback(callbacks, callback) ==
    LET Matches(i) ==
            IF IsUtils(callbacks[i])
            THEN callbacks[i].debug_utils_callback_object = callback
            ELSE callbacks[i].debug_report_callback_object = callback
        hits == {i \in DOMAIN callbacks : Matches(i)}
    IN  IF hits = {} THEN 0 ELSE CHOOSE i \in hits : \A j \in hits : i <= j

\* std::vector::erase of the element at position `pos'
EraseAt(callbacks, pos) ==
    [i \in 1..(Len(callbacks) - 1) |->
        IF i < pos THEN callbacks[i] ELSE callbacks[i + 1]]

\* faulty variant of RemoveDebugUtilsCallback: when no entry carries the handle
\* the last entry is erased; C22 must reject it
RemoveDebugUtilsCallback_PopWhenAbsent(callbacks, callback) ==
    LET item == FindCallback(callbacks, callback)
    IN  IF item # 0 THEN EraseAt(callbacks, item)
        ELSE SubSeq(callbacks, 1, Len(callbacks) - 1)

\* RemoveDebugUtilsCallback: the list after the call
RemoveDebugUtilsCallback(callbacks, callback) ==
    LET item == FindCallback(callbacks, callback)
    IN  IF item # 0 THEN EraseAt(callbacks, item) ELSE callbacks

\* faulty variant of RemoveAllMessageCallbacks: the default entries are kept; C20
\* must reject it
RemoveAllMessageCallbacks_KeepDefault(callbacks) == SelectSeq(callbacks, IsDefault)

\* RemoveAllMessageCallbacks: the list after the call (callbacks.clear())
RemoveAllMessageCallbacks(callbacks) == << >>

\* the handle an entry is registered under: the caller's, or the entry's address
CallbackHandle(given, buf, slot) ==
    IF given = VK_NULL_HANDLE THEN AddressOf(buf, slot) ELSE given

\* the entry layer_create_callback builds in the slot `slot' of buffer `buf'
NewCallbackState(callback_status, create_info, given, buf, slot) ==
    LET callback_state == [ZeroState EXCEPT !.callback_status = callback_status,
                                            !.pUserData = create_info.pUserData]
    IN  IF IsUtils(callback_state)
        THEN [callback_state EXCEPT
                !.debug_utils_callback_object = CallbackHandle(given, buf, slot),
                !.debug_utils_callback_function_ptr = create_info.pfnUserCallback,
                !.debug_utils_msg_flags = create_info.messageSeverity,
                !.debug_utils_msg_type = create_info.messageType]
        ELSE [callback_state EXCEPT
                !.debug_report_callback_object = CallbackHandle(given, buf, slot),
                !.debug_report_callback_function_ptr = create_info.pfnCallback,
                !.debug_report_msg_flags = create_info.flags]

\* `last' when no call is recorded
NoCall == [op |-> "none"]

\* the callback list with its storage and the aggregate masks
Registry ==
    [list       |-> debug_callback_list,
     capacity   |-> list_capacity,
     buffer     |-> list_buffer,
     severities |-> active_severities,
     types      |-> active_types]

\* layer_create_callback on the registry `reg': emplace_back (into the buffer
\* `newbuf' when the list is full), fill the entry in, SetDebugUtilsSeverityFlags
CreateCallbackIn(reg, callback_status, create_info, given, newbuf) ==
    LET full == Len(reg.list) = reg.capacity
        buf  == IF full THEN newbuf ELSE reg.buffer
        slot == Len(reg.list) + 1
        list == Append(reg.list,
                       NewCallbackState(callback_status, create_info, given, buf, slot))
        agg  == SetDebugUtilsSeverityFlags(list, reg.severities, reg.types)
    IN  [list       |-> list,
         capacity   |-> IF full THEN GrowCapacity(reg.capacity) ELSE reg.capacity,
         buffer     |-> buf,
         severities |-> agg.active_severities,
         types      |-> agg.active_types]

\* layer_destroy_callback on the registry `reg'
DestroyCallbackIn(reg, callback) ==
    LET list == RemoveDebugUtilsCallback(reg.list, callback)
        agg  == SetDebugUtilsSeverityFlags(list, reg.severities, reg.types)
    IN  [reg EXCEPT !.list = list,
                    !.severities = agg.active_severities,
                    !.types = agg.active_types]

\* the object's registry becomes `reg'
SetRegistry(reg) ==
    /\ debug_callback_list' = reg.list
    /\ list_capacity' = reg.capacity
    /\ list_buffer' = reg.buffer
    /\ active_severities' = reg.severities
    /\ active_types' = reg.types

\* layer_create_callback
layer_create_callback(callback_status, create_info, given, newbuf) ==
    /\ Len(debug_callback_list) < MaxCallbacks
    /\ newbuf # list_buffer
    /\ SetRegistry(CreateCallbackIn(Registry, callback_status, create_info, given, newbuf))
    /\ removed_all' = FALSE
    /\ last' = NoCall
    /\ UNCHANGED <<instance_pnext_chain, nameVars, labelVars>>

\* layer_create_messenger_callback
layer_create_messenger_callback(default_callback, create_info, messenger, newbuf) ==
    layer_create_callback(
        DEBUG_CALLBACK_UTILS \cup (IF default_callback THEN DEBUG_CALLBACK_DEFAULT ELSE {}),
        create_info, messenger, newbuf)

\* layer_create_report_callback
layer_create_report_callback(default_callback, create_info, callback, newbuf) ==
    layer_create_callback(
        IF default_callback THEN DEBUG_CALLBACK_DEFAULT ELSE {},
        create_info, callback, newbuf)

\* layer_destroy_callback
layer_destroy_callback(callback) ==
    /\ SetRegistry(DestroyCallbackIn(Registry, callback))
    /\ last' = [op       |-> "layer_destroy_callback",
                callback |-> callback,
                before   |-> debug_callback_list]
    /\ UNCHANGED <<instance_pnext_chain, removed_all, nameVars, labelVars>>

\* RemoveAllMessageCallbacks called on the callback list of the object: clear()
\* keeps the capacity and the buffer, and nothing else is written
RemoveAllMessageCallbacksOf(op) ==
    /\ debug_callback_list' = RemoveAllMessageCallbacks(debug_callback_list)
    /\ removed_all' = TRUE
    /\ last' = [op |-> op]
    /\ UNCHANGED <<list_capacity, list_buffer, active_severities, active_types,
                   instance_pnext_chain, nameVars, labelVars>>

\* layer_debug_utils_destroy_instance: debug_data is NULL or <<"debug_data">>.
\* The object is deleted at the end: `last' keeps the call, no function is
\* called on the object afterwards, and the variables show it as it was unlocked.
layer_debug_utils_destroy_instance(debug_data) ==
    IF debug_data # NULL
    THEN RemoveAllMessageCallbacksOf("layer_debug_utils_destroy_instance")
    ELSE UNCHANGED <<regVars, nameVars, labelVars, last>>

-----------------------------------------------------------------------------
(* Callbacks of the instance create info *)

\* sType of the structures of a pNext chain
VK_STRUCTURE_TYPE_DEBUG_UTILS_MESSENGER_CREATE_INFO_EXT == "DEBUG_UTILS_MESSENGER_CREATE_INFO"
VK_STRUCTURE_TYPE_DEBUG_REPORT_CALLBACK_CREATE_INFO_EXT == "DEBUG_REPORT_CALLBACK_CREATE_INFO"

\* A pNext chain is the sequence of its structures [sType, info]; a pointer into
\* it is a position, the position after the last structure being nullptr.
\* lvl_find_in_chain<T>(current): the first structure of type T from `current'
\* on (0: nullptr)
lvl_find_in_chain(chain, sType, current) ==
    LET found == {p \in current..Len(chain) : chain[p].sType = sType}
    IN  IF found = {} THEN 0 ELSE CHOOSE p \in found : \A q \in found : p <= q

\* the buffer a reallocating emplace_back moves the list to: `first' when the
\* list has no buffer yet, else a buffer other than the one in use
NextBuffer(buffer, first) ==
    IF buffer \notin Buffers THEN first ELSE CHOOSE b \in Buffers : b # buffer

\* one for (;;) loop of ActivateInstanceDebugCallbacks: find the next structure
\* of type sType from `current' on, move `current' behind it, register it
RECURSIVE ActivateLoop(_, _, _, _, _, _)
ActivateLoop(reg, chain, current, sType, callback_status, first) ==
    LET create_info == lvl_find_in_chain(chain, sType, current)
    IN  IF create_info = 0 THEN [reg |-> reg, current |-> current]
        ELSE ActivateLoop(
                CreateCallbackIn(reg, callback_status, chain[create_info].info,
                                 VK_NULL_HANDLE, NextBuffer(reg.buffer, first)),
                chain, create_info + 1, sType, callback_status, first)

\* the registry after ActivateInstanceDebugCallbacks: the messenger loop from the
\* head of the chain, then the report loop from where the messenger loop stopped
ActivatedRegistry(reg, chain, first) ==
    LET utils == ActivateLoop(reg, chain, 1,
                     VK_STRUCTURE_TYPE_DEBUG_UTILS_MESSENGER_CREATE_INFO_EXT,
                     DEBUG_CALLBACK_UTILS \cup DEBUG_CALLBACK_INSTANCE, first)
    IN  ActivateLoop(utils.reg, chain, utils.current,
                     VK_STRUCTURE_TYPE_DEBUG_REPORT_CALLBACK_CREATE_INFO_EXT,
                     DEBUG_CALLBACK_INSTANCE, first).reg

\* ActivateInstanceDebugCallbacks
ActivateInstanceDebugCallbacks(first) ==
    LET reg == ActivatedRegistry(Registry, instance_pnext_chain, first)
    IN  /\ Len(reg.list) <= MaxCallbacks
        /\ SetRegistry(reg)
        /\ removed_all' = (removed_all /\ reg.list = debug_callback_list)
        /\ last' = [op     |-> "ActivateInstanceDebugCallbacks",
                    before |-> debug_callback_list]
        /\ UNCHANGED <<instance_pnext_chain, nameVars, labelVars>>

\* the handles DeactivateInstanceDebugCallbacks collects from the entries with
\* the instance bit: those of the messengers (utils TRUE) or of the report callbacks
InstanceHandles(list, utils) ==
    LET picked == SelectSeq(list, LAMBDA item : IsInstance(item) /\ (IsUtils(item) = utils))
    IN  [i \in 1..Len(picked) |->
            IF utils THEN picked[i].debug_utils_callback_object
            ELSE picked[i].debug_report_callback_object]

\* for (auto item : handles) layer_destroy_callback(debug_data, item, nullptr)
RECURSIVE DestroyEach(_, _, _)
DestroyEach(reg, handles, k) ==
    IF k > Len(handles) THEN reg
    ELSE DestroyEach(DestroyCallbackIn(reg, handles[k]), handles, k + 1)

\* the registry after DeactivateInstanceDebugCallbacks
DeactivatedRegistry(reg, chain) ==
    IF /\ lvl_find_in_chain(chain,
              VK_STRUCTURE_TYPE_DEBUG_UTILS_MESSENGER_CREATE_INFO_EXT, 1) = 0
       /\ lvl_find_in_chain(chain,
              VK_STRUCTURE_TYPE_DEBUG_REPORT_CALLBACK_CREATE_INFO_EXT, 1) = 0
    THEN reg
    ELSE LET instance_utils_callback_handles  == InstanceHandles(reg.list, TRUE)
             instance_report_callback_handles == InstanceHandles(reg.list, FALSE)
         IN  DestroyEach(DestroyEach(reg, instance_utils_callback_handles, 1),
                         instance_report_callback_handles, 1)

\* DeactivateInstanceDebugCallbacks
DeactivateInstanceDebugCallbacks ==
    /\ SetRegistry(DeactivatedRegistry(Registry, instance_pnext_chain))
    /\ last' = [op     |-> "DeactivateInstanceDebugCallbacks",
                before |-> debug_callback_list]
    /\ UNCHANGED <<instance_pnext_chain, removed_all, nameVars, labelVars>>

-----------------------------------------------------------------------------
(* Object names *)

\* std::string::empty
StrEmpty(s) == s = ""

\* unordered_map::operator[] assignment
MapPut(map, key, value) ==
    [k \in (DOMAIN map) \cup {key} |-> IF k = key THEN value ELSE map[k]]

\* unordered_map::erase(key)
MapErase(map, key) == [k \in (DOMAIN map) \ {key} |-> map[k]]

\* the name a caller gave, as the interface counts it: NULL and "" are no name
GivenName(pObjectName) == IF pObjectName = NULL THEN "" ELSE pObjectName[1]

\* the map after DebugReportSetUtilsObjectName / DebugReportSetMarkerObjectName
SetObjectName(map, object, pObjectName) ==
    IF pObjectName # NULL
    THEN MapPut(map, object, pObjectName[1])
    ELSE MapErase(map, object)

DebugReportSetUtilsObjectName(objectHandle, pObjectName) ==
    /\ debugUtilsObjectNameMap' =
            SetObjectName(debugUtilsObjectNameMap, objectHandle, pObjectName)
    /\ named_utils' = [named_utils EXCEPT ![objectHandle] = GivenName(pObjectName)]
    /\ last' = NoCall
    /\ UNCHANGED <<regVars, labelVars, debugObjectNameMap, named_marker>>

DebugReportSetMarkerObjectName(object, pObjectName) ==
    /\ debugObjectNameMap' = SetObjectName(debugObjectNameMap, object, pObjectName)
    /\ named_marker' = [named_marker EXCEPT ![object] = GivenName(pObjectName)]
    /\ last' = NoCall
    /\ UNCHANGED <<regVars, labelVars, debugUtilsObjectNameMap, named_utils>>

DebugReportGetUtilsObjectName(object) ==
    IF object \in DOMAIN debugUtilsObjectNameMap
    THEN debugUtilsObjectNameMap[object] ELSE ""

DebugReportGetMarkerObjectName(object) ==
    IF object \in DOMAIN debugObjectNameMap
    THEN debugObjectNameMap[object] ELSE ""

\* faulty variant of ObjectLabel: the debug marker name is looked up first; C8
\* must reject it
ObjectLabel_MarkerFirst(src_object) ==
    LET object_label == DebugReportGetMarkerObjectName(src_object)
    IN  IF StrEmpty(object_label)
        THEN DebugReportGetUtilsObjectName(src_object)
        ELSE object_label

\* the name lookup of debug_log_msg and FormatHandle
ObjectLabel(src_object) ==
    LET object_label == DebugReportGetUtilsObjectName(src_object)
    IN  IF StrEmpty(object_label)
        THEN DebugReportGetMarkerObjectName(src_object)
        ELSE object_label

-----------------------------------------------------------------------------
(* Labels *)

\* the r, g, b, a of LoggingLabel(): all 0.f
NoColor == "0,0,0,0"

\* LoggingLabel() and LoggingLabel::Reset
EmptyLabel == [name |-> "", color |-> NoColor]

\* LoggingLabel(const VkDebugUtilsLabelEXT *): label_info is NULL or <<info>>
LoggingLabel(label_info) ==
    IF label_info # NULL /\ label_info[1].pLabelName # NULL
    THEN [name |-> label_info[1].pLabelName[1], color |-> label_info[1].color]
    ELSE EmptyLabel

\* LoggingLabel::Empty
LabelEmpty(label) == StrEmpty(label.name)

\* LoggingLabel::Export
LabelExport(label) == [pLabelName |-> <<label.name>>, color |-> label.color]

\* lvl_init_struct<VkDebugUtilsLabelEXT>(): the elements std::vector(count) starts with
InitLabelExport == [pLabelName |-> NULL, color |-> NoColor]

\* new LoggingLabelState()
NewLabelState == [labels |-> << >>, insert_label |-> EmptyLabel]

\* the for loop of LoggingLabelState::Export from labels[k] on: out[index--] = label
RECURSIVE ExportLoop(_, _, _, _)
ExportLoop(out, index, labels, k) ==
    IF k > Len(labels) THEN out
    ELSE ExportLoop([out EXCEPT ![index] = LabelExport(labels[k])], index - 1, labels, k + 1)

\* faulty variant of Export: the pushed labels are written in push order, oldest
\* first, and the insert label last; C21 must reject it
Export_PushOrder(label_state) ==
    [i \in 1..Len(label_state.labels) |-> LabelExport(label_state.labels[i])]
    \o (IF LabelEmpty(label_state.insert_label) THEN << >>
        ELSE <<LabelExport(label_state.insert_label)>>)

\* LoggingLabelState::Export (out is indexed from 1: out[index + 1] is the code's out[index])
Export(label_state) ==
    LET count == Len(label_state.labels)
                 + (IF LabelEmpty(label_state.insert_label) THEN 0 ELSE 1)
        out   == [i \in 1..count |-> InitLabelExport]
    IN  IF count = 0 THEN out
        ELSE IF ~LabelEmpty(label_state.insert_label)
             THEN ExportLoop([out EXCEPT ![count] = LabelExport(label_state.insert_label)],
                             count - 1, label_state.labels, 1)
             ELSE ExportLoop(out, count, label_state.labels, 1)


\* GetLoggingLabelState(map, key, /* insert */ true): the map with a state for `key'
GetLoggingLabelState(map, key) ==
    IF key \in DOMAIN map THEN map ELSE MapPut(map, key, NewLabelState)

\* std::vector::pop_back
PopBack(seq) == SubSeq(seq, 1, Len(seq) - 1)

\* the label map after Begin{Queue,Cmd}DebugUtilsLabel
BeginLabel(map, key, label_info) ==
    IF label_info # NULL /\ label_info[1].pLabelName # NULL
    THEN LET with == GetLoggingLabelState(map, key)
         IN  [with EXCEPT ![key] =
                [labels       |-> Append(with[key].labels, LoggingLabel(label_info)),
                 insert_label |-> EmptyLabel]]
    ELSE map

\* faulty variant of EndLabel: the insert label is reset only when a label was
\* popped; C11 must reject it
EndLabel_ResetOnPop(map, key) ==
    IF key \in DOMAIN map /\ map[key].labels # << >>
    THEN [map EXCEPT ![key] =
            [labels |-> PopBack(map[key].labels), insert_label |-> EmptyLabel]]
    ELSE map

\* the label map after End{Queue,Cmd}DebugUtilsLabel
EndLabel(map, key) ==
    IF key \in DOMAIN map
    THEN [map EXCEPT ![key] =
            [labels       |-> IF map[key].labels # << >>
                              THEN PopBack(map[key].labels) ELSE map[key].labels,
             insert_label |-> EmptyLabel]]
    ELSE map

\* the label map after Insert{Queue,Cmd}DebugUtilsLabel
InsertLabel(map, key, label_info) ==
    LET with == GetLoggingLabelState(map, key)
    IN  [with EXCEPT ![key].insert_label = LoggingLabel(label_info)]

\* faulty variant of ResetLabel: the pushed labels are cleared and the insert
\* label is kept; C23 must reject it
ResetLabel_KeepInsert(map, key) ==
    IF key \in DOMAIN map
    THEN [map EXCEPT ![key].labels = << >>]
    ELSE map

\* faulty variant of ResetLabel: labels.clear() on every command buffer's state;
\* C29 must reject it
ResetLabel_EveryKey(map, key) ==
    IF key \in DOMAIN map
    THEN [k \in DOMAIN map |-> [labels |-> << >>, insert_label |-> EmptyLabel]]
    ELSE map

\* the label map after ResetCmdDebugUtilsLabel
ResetLabel(map, key) ==
    IF key \in DOMAIN map
    THEN [map EXCEPT ![key] = [labels |-> << >>, insert_label |-> EmptyLabel]]
    ELSE map

\* number of labels pushed on the stacks of a label map
RECURSIVE PushedIn(_, _)
PushedIn(map, keys) ==
    IF keys = {} THEN 0
    ELSE LET k == CHOOSE x \in keys : TRUE
         IN  Len(map[k].labels) + PushedIn(map, keys \ {k})

Pushed == PushedIn(debugUtilsQueueLabels, DOMAIN debugUtilsQueueLabels)
          + PushedIn(debugUtilsCmdBufLabels, DOMAIN debugUtilsCmdBufLabels)

BeginQueueDebugUtilsLabel(queue, label_info) ==
    /\ Pushed < MaxLabels
    /\ debugUtilsQueueLabels' = BeginLabel(debugUtilsQueueLabels, queue, label_info)
    /\ last' = NoCall
    /\ UNCHANGED <<regVars, nameVars, debugUtilsCmdBufLabels>>

EndQueueDebugUtilsLabel(queue) ==
    /\ debugUtilsQueueLabels' = EndLabel(debugUtilsQueueLabels, queue)
    /\ last' = [op     |-> "EndQueueDebugUtilsLabel",
                key    |-> queue,
                before |-> debugUtilsQueueLabels]
    /\ UNCHANGED <<regVars, nameVars, debugUtilsCmdBufLabels>>

InsertQueueDebugUtilsLabel(queue, label_info) ==
    /\ debugUtilsQueueLabels' = InsertLabel(debugUtilsQueueLabels, queue, label_info)
    /\ last' = NoCall
    /\ UNCHANGED <<regVars, nameVars, debugUtilsCmdBufLabels>>

BeginCmdDebugUtilsLabel(command_buffer, label_info) ==
    /\ Pushed < MaxLabels
    /\ debugUtilsCmdBufLabels' = BeginLabel(debugUtilsCmdBufLabels, command_buffer, label_info)
    /\ last' = NoCall
    /\ UNCHANGED <<regVars, nameVars, debugUtilsQueueLabels>>

EndCmdDebugUtilsLabel(command_buffer) ==
    /\ debugUtilsCmdBufLabels' = EndLabel(debugUtilsCmdBufLabels, command_buffer)
    /\ last' = [op     |-> "EndCmdDebugUtilsLabel",
                key    |-> command_buffer,
                before |-> debugUtilsCmdBufLabels]
    /\ UNCHANGED <<regVars, nameVars, debugUtilsQueueLabels>>

InsertCmdDebugUtilsLabel(command_buffer, label_info) ==
    /\ debugUtilsCmdBufLabels' = InsertLabel(debugUtilsCmdBufLabels, command_buffer, label_info)
    /\ last' = NoCall
    /\ UNCHANGED <<regVars, nameVars, debugUtilsQueueLabels>>

ResetCmdDebugUtilsLabel(command_buffer) ==
    /\ debugUtilsCmdBufLabels' = ResetLabel(debugUtilsCmdBufLabels, command_buffer)
    /\ last' = [op     |-> "ResetCmdDebugUtilsLabel",
                key    |-> command_buffer,
                before |-> debugUtilsCmdBufLabels]
    /\ UNCHANGED <<regVars, nameVars, debugUtilsQueueLabels>>

EraseCmdDebugUtilsLabel(command_buffer) ==
    /\ debugUtilsCmdBufLabels' = MapErase(debugUtilsCmdBufLabels, command_buffer)
    /\ last' = [op     |-> "EraseCmdDebugUtilsLabel",
                key    |-> command_buffer,
                before |-> debugUtilsCmdBufLabels]
    /\ UNCHANGED <<regVars, nameVars, debugUtilsQueueLabels>>


-----------------------------------------------------------------------------
(* Dispatch *)

VK_DEBUG_REPORT_OBJECT_TYPE_UNKNOWN_EXT        == "REPORT_OBJECT_TYPE_UNKNOWN"
VK_DEBUG_REPORT_OBJECT_TYPE_QUEUE_EXT          == "REPORT_OBJECT_TYPE_QUEUE"
VK_DEBUG_REPORT_OBJECT_TYPE_COMMAND_BUFFER_EXT == "REPORT_OBJECT_TYPE_COMMAND_BUFFER"

VK_OBJECT_TYPE_UNKNOWN        == "OBJECT_TYPE_UNKNOWN"
VK_OBJECT_TYPE_QUEUE          == "OBJECT_TYPE_QUEUE"
VK_OBJECT_TYPE_COMMAND_BUFFER == "OBJECT_TYPE_COMMAND_BUFFER"

convertDebugReportObjectToCoreObject(object_type) ==
    CASE object_type = VK_DEBUG_REPORT_OBJECT_TYPE_QUEUE_EXT -> VK_OBJECT_TYPE_QUEUE
      [] object_type = VK_DEBUG_REPORT_OBJECT_TYPE_COMMAND_BUFFER_EXT
            -> VK_OBJECT_TYPE_COMMAND_BUFFER
      [] OTHER -> VK_OBJECT_TYPE_UNKNOWN

\* std::to_string(object_type): the decimal value of the enumerator
ObjectTypeToString(object_type) ==
    CASE object_type = VK_DEBUG_REPORT_OBJECT_TYPE_QUEUE_EXT -> "4"
      [] object_type = VK_DEBUG_REPORT_OBJECT_TYPE_COMMAND_BUFFER_EXT -> "6"
      [] OTHER -> "0"

\* oss << std::hex << src_object, for the handles of the model
HexString(n) ==
    <<"0", "1", "2", "3", "4", "5", "6", "7",
      "8", "9", "a", "b", "c", "d", "e", "f">>[n + 1]

\* std::string::insert(0, piece)
InsertFront(str, piece) == <<piece>> \o str

\* the labels debug_log_msg exports for an object of core type `objectType'
LabelsFor(map, wanted, objectType, src_object) ==
    IF src_object # 0 /\ objectType = wanted /\ src_object \in DOMAIN map
    THEN Export(map[src_object])
    ELSE << >>

\* faulty variant of ObjectNamePtr: the name is looked up for the null handle
\* too; C30 must reject it
ObjectNamePtr_NullLookedUp(src_object) ==
    IF ~StrEmpty(ObjectLabel(src_object))
    THEN <<ObjectLabel(src_object)>>
    ELSE NULL

\* object_name_info.pObjectName
ObjectNamePtr(src_object) ==
    IF src_object # 0 /\ ~StrEmpty(ObjectLabel(src_object))
    THEN <<ObjectLabel(src_object)>>
    ELSE NULL

\* new_debug_report_message before the callbacks are visited
ComposeMessage(object_type, src_object, message) ==
    (IF src_object # 0
     THEN <<"Object: 0x", HexString(src_object)>>
          \o (IF ~StrEmpty(ObjectLabel(src_object))
              THEN <<" (Name = ", ObjectLabel(src_object), " : Type = ">>
              ELSE <<" (Type = ">>)
          \o <<ObjectTypeToString(object_type), ")">>
     ELSE <<"Object: VK_NULL_HANDLE (Type = ", ObjectTypeToString(object_type), ")">>)
    \o <<" | ", message>>

\* callback_data as handed to the debug utils callbacks
CallbackData(object_type, src_object, message, text_vuid) ==
    LET objectType == convertDebugReportObjectToCoreObject(object_type)
    IN  [pMessageIdName |-> text_vuid,
         pMessage       |-> message,
         pQueueLabels   |-> LabelsFor(debugUtilsQueueLabels, VK_OBJECT_TYPE_QUEUE,
                                      objectType, src_object),
         pCmdBufLabels  |-> IF objectType = VK_OBJECT_TYPE_QUEUE THEN << >>
                            ELSE LabelsFor(debugUtilsCmdBufLabels,
                                           VK_OBJECT_TYPE_COMMAND_BUFFER,
                                           objectType, src_object),
         pObjects       |-> <<[objectType   |-> objectType,
                               objectHandle |-> src_object,
                               pObjectName  |-> ObjectNamePtr(src_object)]>>]

\* faulty variant of UseDefaultCallbacks: true as soon as one entry is a default
\* one (use_default_callbacks |= IsDefault()); C4 must reject it
UseDefaultCallbacks_AnyDefault(callback_list) ==
    \E i \in DOMAIN callback_list : IsDefault(callback_list[i])

\* "We only output to default callbacks if there are no non-default callbacks"
UseDefaultCallbacks(callback_list) ==
    \A i \in DOMAIN callback_list : IsDefault(callback_list[i])

\* the skip at the head of the loop body
Skipped(current_callback, use_default_callbacks) ==
    IsDefault(current_callback) /\ ~use_default_callbacks

\* the test guarding the VK_EXT_debug_report branch
ReportFires(current_callback, msg_flags) ==
    /\ ~IsUtils(current_callback)
    /\ (current_callback.debug_report_msg_flags \cap msg_flags) # {}

\* faulty variant of UtilsFires: the type mask is not tested; C6 must reject it
UtilsFires_SeverityOnly(current_callback, severity, types) ==
    /\ IsUtils(current_callback)
    /\ (current_callback.debug_utils_msg_flags \cap severity) # {}

\* the test guarding the VK_EXT_debug_utils branch
UtilsFires(current_callback, severity, types) ==
    /\ IsUtils(current_callback)
    /\ (current_callback.debug_utils_msg_flags \cap severity) # {}
    /\ (current_callback.debug_utils_msg_type \cap types) # {}

\* new_debug_report_message after the prepending done for one firing report callback
PrependVuid(new_debug_report_message, text_vuid) ==
    IF text_vuid # NULL
    THEN InsertFront(InsertFront(InsertFront(new_debug_report_message, " ] "),
                                 text_vuid[1]), " [ ")
    ELSE new_debug_report_message

\* faulty variant of Bail: the last callback's answer overwrites the earlier ones
\* (bail = callback(...)); C5 must reject it
Bail_Overwrite(bail, returned) == returned

\* bail after a callback returned `returned'
Bail(bail, returned) == IF returned THEN TRUE ELSE bail

\* one iteration of the callback loop; st = [message, calls, bail], and the sink at
\* position i returns true iff i \in rets
VisitCallback(st, i, ev, use_default_callbacks, rets) ==
    LET current_callback == debug_callback_list[i]
        annot == DebugReportFlagsToAnnotFlags(ev.msg_flags)
    IN  IF Skipped(current_callback, use_default_callbacks) THEN st
        ELSE IF ReportFires(current_callback, ev.msg_flags)
        THEN LET msg == PrependVuid(st.message, ev.text_vuid)
             IN  [message |-> msg,
                  calls   |-> Append(st.calls,
                      [index        |-> i,
                       via          |-> "debug_report_callback_function_ptr",
                       function_ptr |-> current_callback.debug_report_callback_function_ptr,
                       msg_flags    |-> ev.msg_flags,
                       message      |-> msg,
                       pUserData    |-> current_callback.pUserData,
                       returned     |-> i \in rets]),
                  bail    |-> Bail(st.bail, i \in rets)]
        ELSE IF UtilsFires(current_callback, annot.da_severity, annot.da_type)
        THEN [message |-> st.message,
              calls   |-> Append(st.calls,
                  [index         |-> i,
                   via           |-> "debug_utils_callback_function_ptr",
                   function_ptr  |-> current_callback.debug_utils_callback_function_ptr,
                   severity      |-> annot.da_severity,
                   types         |-> annot.da_type,
                   callback_data |-> CallbackData(ev.object_type, ev.src_object,
                                                  ev.message, ev.text_vuid),
                   pUserData     |-> current_callback.pUserData,
                   returned      |-> i \in rets]),
              bail    |-> Bail(st.bail, i \in rets)]
        ELSE st

\* the callback loop from position i on
RECURSIVE CallbackLoop(_, _, _, _, _)
CallbackLoop(st, i, ev, use_default_callbacks, rets) ==
    IF i > Len(debug_callback_list) THEN st
    ELSE CallbackLoop(VisitCallback(st, i, ev, use_default_callbacks, rets),
                      i + 1, ev, use_default_callbacks, rets)

\* faulty variant of debug_log_msg: the name is read with operator[] of the map,
\* which stores an empty name for an object that has none; C28 must reject it
debug_log_msg_LookupStores(ev, rets) ==
    LET start == [message |-> ComposeMessage(ev.object_type, ev.src_object, ev.message),
                  calls   |-> << >>,
                  bail    |-> FALSE]
        done  == CallbackLoop(start, 1, ev, UseDefaultCallbacks(debug_callback_list), rets)
    IN  /\ last' = [op    |-> "debug_log_msg",
                    ev    |-> ev,
                    calls |-> done.calls,
                    bail  |-> done.bail]
        /\ debugUtilsObjectNameMap' =
              IF ev.src_object # 0 /\ ev.src_object \notin DOMAIN debugUtilsObjectNameMap
              THEN MapPut(debugUtilsObjectNameMap, ev.src_object, "")
              ELSE debugUtilsObjectNameMap
        /\ UNCHANGED <<regVars, labelVars, debugObjectNameMap, named_marker, named_utils>>

\* debug_log_msg: ev = [msg_flags, object_type, src_object, message, text_vuid]
debug_log_msg(ev, rets) ==
    LET start == [message |-> ComposeMessage(ev.object_type, ev.src_object, ev.message),
                  calls   |-> << >>,
                  bail    |-> FALSE]
        done  == CallbackLoop(start, 1, ev, UseDefaultCallbacks(debug_callback_list), rets)
    IN  /\ last' = [op    |-> "debug_log_msg",
                    ev    |-> ev,
                    calls |-> done.calls,
                    bail  |-> done.bail]
        /\ UNCHANGED <<regVars, nameVars, labelVars>>


-----------------------------------------------------------------------------
(* LogMsgLocked *)

kVUIDUndefined == "VUID_Undefined"

\* vuid_spec_text: the table of identifiers and the specification text of each
vuid_spec_text ==
    <<[vuid |-> "VUID-vkQueueSubmit-00001", spec_text |-> "spec text of 00001"],
      [vuid |-> "UNASSIGNED-listed", spec_text |-> "spec text of listed"]>>

\* std::string::find(sub) != std::string::npos
Found(str, sub) ==
    \E i \in 1..(Len(str) - Len(sub) + 1) : SubSeq(str, i, i + Len(sub) - 1) = sub

\* the test that guards the lookup of the spec text
LooksUp(vuid_text) ==
    ~Found(vuid_text, "UNASSIGNED-") /\ ~Found(vuid_text, kVUIDUndefined)

\* the linear search of vuid_spec_text: spec_text of the first entry with the vuid
SpecTextOf(vuid_text) ==
    LET hits == {i \in DOMAIN vuid_spec_text : vuid_spec_text[i].vuid = vuid_text}
    IN  IF hits = {} THEN NULL
        ELSE <<vuid_spec_text[CHOOSE i \in hits : \A j \in hits : i <= j].spec_text>>

\* faulty variant of AssertFails: the assertion is compiled out and the event is
\* dispatched; C24 must reject it
AssertFails_Never(spec_text) == FALSE

\* assert(0) in the branch taken when the search found no entry
AssertFails(spec_text) == spec_text = NULL

\* str_plus_spec_text as handed to debug_log_msg
StrPlusSpecText(vuid_text, err_msg) ==
    LET str == IF err_msg # NULL THEN err_msg[1] ELSE "Allocation failure"
    IN  IF LooksUp(vuid_text) /\ SpecTextOf(vuid_text) # NULL
        THEN str \o " The Vulkan spec states: " \o SpecTextOf(vuid_text)[1]
        ELSE str

\* LogMsgLocked: the process aborts on an identifier that is looked up and not
\* found; otherwise the event goes to debug_log_msg with vuid_text.c_str()
LogMsgLocked(msg_flags, object_type, src_object, vuid_text, err_msg, rets) ==
    IF LooksUp(vuid_text) /\ AssertFails(SpecTextOf(vuid_text))
    THEN /\ last' = [op |-> "abort", vuid_text |-> vuid_text]
         /\ UNCHANGED <<regVars, nameVars, labelVars>>
    ELSE debug_log_msg([msg_flags   |-> msg_flags,
                        object_type |-> object_type,
                        src_object  |-> src_object,
                        message     |-> StrPlusSpecText(vuid_text, err_msg),
                        text_vuid   |-> <<vuid_text>>],
                       rets)

-----------------------------------------------------------------------------
(* Inputs *)

\* object handles (0 is VK_NULL_HANDLE) used as keys of the name and label maps
Objects == {0, 1, 2}
Queues == {1}
CommandBuffers == {1, 2}

\* pObjectName values: NULL, the empty string, two names
ObjectNames == {NULL, <<"">>, <<"Foo">>, <<"Bar">>}

\* const VkDebugUtilsLabelEXT * values: NULL, no name, an empty name, three labels
LabelInfos ==
    {NULL,
     <<[pLabelName |-> NULL,    color |-> "1,1,1,1"]>>,
     <<[pLabelName |-> <<"">>,  color |-> "1,1,1,1"]>>,
     <<[pLabelName |-> <<"A">>, color |-> "1,0,0,1"]>>,
     <<[pLabelName |-> <<"B">>, color |-> "0,1,0,1"]>>,
     <<[pLabelName |-> <<"C">>, color |-> "0,0,1,1"]>>}

\* VkDebugUtilsMessengerCreateInfoEXT values
MessengerCreateInfos ==
    {[messageSeverity |-> VK_DEBUG_UTILS_MESSAGE_SEVERITY_WARNING_BIT_EXT,
      messageType     |-> VK_DEBUG_UTILS_MESSAGE_TYPE_PERFORMANCE_BIT_EXT
                          \cup VK_DEBUG_UTILS_MESSAGE_TYPE_GENERAL_BIT_EXT,
      pfnUserCallback |-> <<"messenger_callback">>,
      pUserData       |-> <<"messenger_user_data">>]}

\* VkDebugReportCallbackCreateInfoEXT values
ReportCreateInfos ==
    {[flags       |-> VK_DEBUG_REPORT_WARNING_BIT_EXT
                      \cup VK_DEBUG_REPORT_ERROR_BIT_EXT,
      pfnCallback |-> <<"report_callback">>,
      pUserData   |-> <<"report_user_data">>]}

\* handles a caller passes to register: none, or one the driver created
GivenHandles == {VK_NULL_HANDLE, DriverHandle(1), DriverHandle(2)}

\* the handle an entry of the list is removed by
HandleOf(item) ==
    IF IsUtils(item) THEN item.debug_utils_callback_object
    ELSE item.debug_report_callback_object

HandlesInList == {HandleOf(debug_callback_list[i]) : i \in DOMAIN debug_callback_list}

\* the driver never hands out the handle of a live object a second time
Fresh(given) == given = VK_NULL_HANDLE \/ given \notin HandlesInList

\* events submitted to debug_log_msg
EventFlags ==
    {VK_DEBUG_REPORT_WARNING_BIT_EXT,
     VK_DEBUG_REPORT_PERFORMANCE_WARNING_BIT_EXT,
     VK_DEBUG_REPORT_DEBUG_BIT_EXT,
     VK_DEBUG_REPORT_WARNING_BIT_EXT \cup VK_DEBUG_REPORT_DEBUG_BIT_EXT}

EventObjects ==
    {[object_type |-> VK_DEBUG_REPORT_OBJECT_TYPE_QUEUE_EXT, src_object |-> 1]}

TextVuids == {NULL, <<"VUID-vkQueueSubmit-00001">>}

Events ==
    {[msg_flags   |-> f,
      object_type |-> o.object_type,
      src_object  |-> o.src_object,
      message     |-> "text",
      text_vuid   |-> v] : f \in EventFlags, o \in EventObjects, v \in TextVuids}

\* a VkDebugUtilsMessengerCreateInfoEXT in the chain of the instance create info
ChainMessenger(user_data) ==
    [sType |-> VK_STRUCTURE_TYPE_DEBUG_UTILS_MESSENGER_CREATE_INFO_EXT,
     info  |-> [messageSeverity |-> VK_DEBUG_UTILS_MESSAGE_SEVERITY_ERROR_BIT_EXT,
                messageType     |-> VK_DEBUG_UTILS_MESSAGE_TYPE_VALIDATION_BIT_EXT,
                pfnUserCallback |-> <<"instance_messenger_callback">>,
                pUserData       |-> <<user_data>>]]

\* a VkDebugReportCallbackCreateInfoEXT in the chain
ChainReport(user_data) ==
    [sType |-> VK_STRUCTURE_TYPE_DEBUG_REPORT_CALLBACK_CREATE_INFO_EXT,
     info  |-> [flags       |-> VK_DEBUG_REPORT_ERROR_BIT_EXT,
                pfnCallback |-> <<"instance_report_callback">>,
                pUserData   |-> <<user_data>>]]

\* a structure of the chain that creates no callback
ChainOther == [sType |-> "VALIDATION_FEATURES", info |-> NULL]

\* pNext chains of the instance create info
Chains ==
    {<< >>,
     <<ChainOther>>,
     <<ChainMessenger("m1")>>,
     <<ChainReport("r1")>>,
     <<ChainMessenger("m1"), ChainOther, ChainReport("r1")>>,
     <<ChainReport("r1"), ChainMessenger("m1")>>,
     <<ChainMessenger("m1"), ChainMessenger("m2")>>}

\* a bit of VkDebugReportFlagsEXT that VkDebugReportFlagBitsEXT does not name
OtherReportBit == {"REPORT_UNNAMED"}

\* a bit of the severity mask that the severity enumeration does not name
OtherSeverityBit == {"SEVERITY_UNNAMED"}

\* VkDebugReportFlagsEXT values
ReportFlagValues ==
    SUBSET (VK_DEBUG_REPORT_INFORMATION_BIT_EXT \cup VK_DEBUG_REPORT_WARNING_BIT_EXT
            \cup VK_DEBUG_REPORT_PERFORMANCE_WARNING_BIT_EXT
            \cup VK_DEBUG_REPORT_ERROR_BIT_EXT \cup VK_DEBUG_REPORT_DEBUG_BIT_EXT
            \cup OtherReportBit)

\* severity mask values
SeverityValues ==
    SUBSET (VK_DEBUG_UTILS_MESSAGE_SEVERITY_VERBOSE_BIT_EXT
            \cup VK_DEBUG_UTILS_MESSAGE_SEVERITY_INFO_BIT_EXT
            \cup VK_DEBUG_UTILS_MESSAGE_SEVERITY_WARNING_BIT_EXT
            \cup VK_DEBUG_UTILS_MESSAGE_SEVERITY_ERROR_BIT_EXT
            \cup OtherSeverityBit)

\* VkDebugUtilsMessageTypeFlagsEXT values
TypeValues ==
    SUBSET (VK_DEBUG_UTILS_MESSAGE_TYPE_GENERAL_BIT_EXT
            \cup VK_DEBUG_UTILS_MESSAGE_TYPE_VALIDATION_BIT_EXT
            \cup VK_DEBUG_UTILS_MESSAGE_TYPE_PERFORMANCE_BIT_EXT)

\* what a caller of a flag translation holds: a legacy mask, a severity mask and a
\* type mask (an argument, or what an out parameter points to before the call)
FlagArgs ==
    {[op |-> "args", dr_flags |-> f, da_severity |-> sv, da_type |-> ty] :
        f \in ReportFlagValues, sv \in SeverityValues, ty \in TypeValues}

\* application threads that call into the layer
Threads == {"t1", "t2"}

\* debug_output_mutex when no thread owns it
NoThread == "none"

\* pc of a thread that is in no function of this header
NotCalling == [fn |-> "none"]

-----------------------------------------------------------------------------
(* Specifications *)

Init ==
    /\ debug_callback_list = << >>
    /\ list_capacity = 0
    /\ list_buffer = NoBuffer
    /\ active_severities = {}
    /\ active_types = {}
    /\ debugObjectNameMap = << >>
    /\ debugUtilsObjectNameMap = << >>
    /\ debugUtilsQueueLabels = << >>
    /\ debugUtilsCmdBufLabels = << >>
    /\ named_marker = [h \in Objects |-> ""]
    /\ named_utils = [h \in Objects |-> ""]
    /\ last = NoCall
    /\ instance_pnext_chain = << >>
    /\ removed_all = FALSE
    /\ debug_output_mutex = NoThread
    /\ pc = [t \in Threads |-> NotCalling]

\* no call is in progress
Idle == last.op = "none"

CreateMessenger ==
    /\ Idle
    /\ UNCHANGED thrVars
    /\ \E d \in BOOLEAN, ci \in MessengerCreateInfos, h \in GivenHandles, b \in Buffers :
          Fresh(h) /\ layer_create_messenger_callback(d, ci, h, b)

CreateReport ==
    /\ Idle
    /\ UNCHANGED thrVars
    /\ \E d \in BOOLEAN, ci \in ReportCreateInfos, h \in GivenHandles, b \in Buffers :
          Fresh(h) /\ layer_create_report_callback(d, ci, h, b)

Destroy ==
    /\ Idle
    /\ UNCHANGED thrVars
    /\ \E h \in HandlesInList \cup (GivenHandles \ {VK_NULL_HANDLE}) :
          layer_destroy_callback(h)

RemoveAll ==
    /\ Idle
    /\ UNCHANGED thrVars
    /\ RemoveAllMessageCallbacksOf("RemoveAllMessageCallbacks")

DestroyInstance ==
    /\ Idle
    /\ UNCHANGED thrVars
    /\ \E debug_data \in {NULL, <<"debug_data">>} :
          layer_debug_utils_destroy_instance(debug_data)

LogMsg ==
    /\ Idle
    /\ UNCHANGED thrVars
    /\ \E ev \in Events, rets \in SUBSET (DOMAIN debug_callback_list) :
          debug_log_msg(ev, rets)

\* the recorded call returns to its caller, which takes the result
Return ==
    /\ last.op \notin {"none", "layer_debug_utils_destroy_instance", "abort"}
    /\ last' = NoCall
    /\ UNCHANGED <<regVars, nameVars, labelVars, thrVars>>

\* the callback registry and the dispatch of events to it
Next ==
    \/ CreateMessenger \/ CreateReport \/ Destroy \/ RemoveAll \/ DestroyInstance
    \/ LogMsg \/ Return

Spec == Init /\ [][Next]_vars

\* an event both kinds of sink fire on: a warning that is also a performance warning
LogBoth ==
    /\ Idle
    /\ UNCHANGED thrVars
    /\ \E rets \in SUBSET (DOMAIN debug_callback_list) :
          debug_log_msg([msg_flags   |-> VK_DEBUG_REPORT_WARNING_BIT_EXT
                                         \cup VK_DEBUG_REPORT_PERFORMANCE_WARNING_BIT_EXT,
                         object_type |-> VK_DEBUG_REPORT_OBJECT_TYPE_QUEUE_EXT,
                         src_object  |-> 1,
                         message     |-> "text",
                         text_vuid   |-> NULL],
                        rets)

\* the callback registry: registrations and removals, and one event
NextRegistry ==
    \/ CreateMessenger \/ CreateReport \/ Destroy \/ RemoveAll \/ LogBoth \/ Return

SpecRegistry == Init /\ [][NextRegistry]_vars

SetUtilsName ==
    /\ UNCHANGED thrVars
    /\ \E h \in Objects, n \in ObjectNames : DebugReportSetUtilsObjectName(h, n)

SetMarkerName ==
    /\ UNCHANGED thrVars
    /\ \E h \in Objects, n \in ObjectNames : DebugReportSetMarkerObjectName(h, n)

\* the two object name maps
NextNames == SetUtilsName \/ SetMarkerName

SpecNames == Init /\ [][NextNames]_vars

BeginQueue ==
    /\ Idle
    /\ UNCHANGED thrVars
    /\ \E q \in Queues, l \in LabelInfos : BeginQueueDebugUtilsLabel(q, l)

EndQueue ==
    /\ Idle
    /\ UNCHANGED thrVars
    /\ \E q \in Queues : EndQueueDebugUtilsLabel(q)

InsertQueue ==
    /\ Idle
    /\ UNCHANGED thrVars
    /\ \E q \in Queues, l \in LabelInfos : InsertQueueDebugUtilsLabel(q, l)

BeginCmd ==
    /\ Idle
    /\ UNCHANGED thrVars
    /\ \E c \in CommandBuffers, l \in LabelInfos : BeginCmdDebugUtilsLabel(c, l)

EndCmd ==
    /\ Idle
    /\ UNCHANGED thrVars
    /\ \E c \in CommandBuffers : EndCmdDebugUtilsLabel(c)

InsertCmd ==
    /\ Idle
    /\ UNCHANGED thrVars
    /\ \E c \in CommandBuffers, l \in LabelInfos : InsertCmdDebugUtilsLabel(c, l)

ResetCmd ==
    /\ Idle
    /\ UNCHANGED thrVars
    /\ \E c \in CommandBuffers : ResetCmdDebugUtilsLabel(c)

EraseCmd ==
    /\ Idle
    /\ UNCHANGED thrVars
    /\ \E c \in CommandBuffers : EraseCmdDebugUtilsLabel(c)

\* the two label maps
NextLabels ==
    \/ BeginQueue \/ EndQueue \/ InsertQueue
    \/ BeginCmd \/ EndCmd \/ InsertCmd \/ ResetCmd \/ EraseCmd
    \/ Return

SpecLabels == Init /\ [][NextLabels]_vars

\* labels of the scopes a command buffer recording opens: none, "A", "C"
ScopeLabelInfos ==
    {NULL,
     <<[pLabelName |-> <<"A">>, color |-> "1,0,0,1"]>>,
     <<[pLabelName |-> <<"C">>, color |-> "0,0,1,1"]>>}

ScopeBeginQueue ==
    /\ Idle
    /\ UNCHANGED thrVars
    /\ \E q \in Queues, l \in ScopeLabelInfos : BeginQueueDebugUtilsLabel(q, l)

ScopeInsertQueue ==
    /\ Idle
    /\ UNCHANGED thrVars
    /\ \E q \in Queues, l \in ScopeLabelInfos : InsertQueueDebugUtilsLabel(q, l)

ScopeBeginCmd ==
    /\ Idle
    /\ UNCHANGED thrVars
    /\ \E c \in CommandBuffers, l \in ScopeLabelInfos : BeginCmdDebugUtilsLabel(c, l)

ScopeInsertCmd ==
    /\ Idle
    /\ UNCHANGED thrVars
    /\ \E c \in CommandBuffers, l \in ScopeLabelInfos : InsertCmdDebugUtilsLabel(c, l)

\* the label maps of a queue and of command buffers that are recorded, reset
\* and freed
NextScopes ==
    \/ ScopeBeginQueue \/ EndQueue \/ ScopeInsertQueue
    \/ ScopeBeginCmd \/ EndCmd \/ ScopeInsertCmd \/ ResetCmd \/ EraseCmd
    \/ Return

SpecScopes == Init /\ [][NextScopes]_vars

\* the messenger of the scenario: severity Error, type Validation
ErrorValidationMessenger ==
    [messageSeverity |-> VK_DEBUG_UTILS_MESSAGE_SEVERITY_ERROR_BIT_EXT,
     messageType     |-> VK_DEBUG_UTILS_MESSAGE_TYPE_VALIDATION_BIT_EXT,
     pfnUserCallback |-> <<"messenger_callback">>,
     pUserData       |-> <<"messenger_user_data">>]

\* identifiers passed to LogMsgLocked: listed in the table, not listed, and
\* three holding a sentinel (one of them listed, one not at the front)
VuidTexts ==
    {"VUID-vkQueueSubmit-00001", "VUID-vkQueueSubmit-00002",
     "UNASSIGNED-listed", "Layer-UNASSIGNED-text", kVUIDUndefined}

\* err_msg: NULL after a failed allocation, or the formatted message
ErrMsgs == {NULL, <<"text">>}

\* a sink of either scheme is registered, under the address of its entry
RegisterSink ==
    /\ Idle
    /\ UNCHANGED thrVars
    /\ \E b \in Buffers :
          \/ \E ci \in ReportCreateInfos :
                layer_create_report_callback(FALSE, ci, VK_NULL_HANDLE, b)
          \/ layer_create_messenger_callback(FALSE, ErrorValidationMessenger,
                                             VK_NULL_HANDLE, b)

LogLocked ==
    /\ Idle
    /\ UNCHANGED thrVars
    /\ \E v \in VuidTexts, m \in ErrMsgs, o \in {0, 1},
          rets \in SUBSET (DOMAIN debug_callback_list) :
          LogMsgLocked(VK_DEBUG_REPORT_ERROR_BIT_EXT,
                       VK_DEBUG_REPORT_OBJECT_TYPE_QUEUE_EXT, o, v, m, rets)

\* sinks of both schemes and the events submitted with the mutex held
NextLocked == RegisterSink \/ LogLocked \/ Return

SpecLocked == Init /\ [][NextLocked]_vars

\* handles an event is reported on, and names and labels are stored under: the
\* null handle and one object
EventHandles == {0, 1}

\* the labels of the scenario
OuterLabel == <<[pLabelName |-> <<"outer">>, color |-> "1,0,0,1"]>>
InnerLabel == <<[pLabelName |-> <<"inner">>, color |-> "0,1,0,1"]>>

RegisterMessenger ==
    /\ Idle
    /\ UNCHANGED thrVars
    /\ \E b \in Buffers :
          layer_create_messenger_callback(FALSE, ErrorValidationMessenger,
                                          VK_NULL_HANDLE, b)

NameObject ==
    /\ Idle
    /\ UNCHANGED thrVars
    /\ \E h \in EventHandles :
          \/ DebugReportSetUtilsObjectName(h, <<"Foo">>)
          \/ h = 0 /\ DebugReportSetMarkerObjectName(h, <<"Bar">>)

BeginOnQueue ==
    /\ Idle
    /\ UNCHANGED thrVars
    /\ \E q \in EventHandles, l \in {OuterLabel, InnerLabel} :
          BeginQueueDebugUtilsLabel(q, l)

BeginOnCmd ==
    /\ Idle
    /\ UNCHANGED thrVars
    /\ \E c \in EventHandles : BeginCmdDebugUtilsLabel(c, OuterLabel)

LogEvent ==
    /\ Idle
    /\ UNCHANGED thrVars
    /\ \E t \in {VK_DEBUG_REPORT_OBJECT_TYPE_UNKNOWN_EXT,
                 VK_DEBUG_REPORT_OBJECT_TYPE_QUEUE_EXT,
                 VK_DEBUG_REPORT_OBJECT_TYPE_COMMAND_BUFFER_EXT},
          h \in EventHandles, rets \in SUBSET (DOMAIN debug_callback_list) :
          debug_log_msg([msg_flags   |-> VK_DEBUG_REPORT_ERROR_BIT_EXT,
                         object_type |-> t,
                         src_object  |-> h,
                         message     |-> "text",
                         text_vuid   |-> NULL],
                        rets)

\* events reported on named and labelled objects
NextEvents ==
    \/ RegisterMessenger \/ NameObject \/ BeginOnQueue \/ BeginOnCmd
    \/ LogEvent \/ Return

SpecEvents == Init /\ [][NextEvents]_vars

\* masks over the five bits VkDebugReportFlagBitsEXT names
LegacyMasks ==
    SUBSET (VK_DEBUG_REPORT_INFORMATION_BIT_EXT \cup VK_DEBUG_REPORT_WARNING_BIT_EXT
            \cup VK_DEBUG_REPORT_PERFORMANCE_WARNING_BIT_EXT
            \cup VK_DEBUG_REPORT_ERROR_BIT_EXT \cup VK_DEBUG_REPORT_DEBUG_BIT_EXT)

\* a legacy sink is registered with a mask of the five bits
RegisterLegacy ==
    /\ Idle
    /\ UNCHANGED thrVars
    /\ debug_callback_list = << >>
    /\ \E m \in LegacyMasks, b \in Buffers :
          layer_create_report_callback(FALSE,
              [flags       |-> m,
               pfnCallback |-> <<"report_callback">>,
               pUserData   |-> <<"report_user_data">>],
              VK_NULL_HANDLE, b)

\* a modern sink is registered with the translation of the legacy sink's mask
RegisterTranslated ==
    /\ Idle
    /\ UNCHANGED thrVars
    /\ Len(debug_callback_list) = 1
    /\ LET annot == DebugReportFlagsToAnnotFlags(
                        debug_callback_list[1].debug_report_msg_flags)
       IN  \E b \in Buffers :
              layer_create_messenger_callback(FALSE,
                  [messageSeverity |-> annot.da_severity,
                   messageType     |-> annot.da_type,
                   pfnUserCallback |-> <<"messenger_callback">>,
                   pUserData       |-> <<"messenger_user_data">>],
                  VK_NULL_HANDLE, b)

\* an event with any of the masks as its flags is dispatched to the two sinks
LogFlags ==
    /\ Idle
    /\ UNCHANGED thrVars
    /\ Len(debug_callback_list) = 2
    /\ \E f \in LegacyMasks :
          debug_log_msg([msg_flags   |-> f,
                         object_type |-> VK_DEBUG_REPORT_OBJECT_TYPE_QUEUE_EXT,
                         src_object  |-> 1,
                         message     |-> "text",
                         text_vuid   |-> NULL],
                        {})

\* a legacy sink, a modern sink with the translated filter, and events
NextFilters == RegisterLegacy \/ RegisterTranslated \/ LogFlags \/ Return

SpecFilters == Init /\ [][NextFilters]_vars

\* the object of Init, created for an instance create info with any of the chains
InitInstance ==
    /\ debug_callback_list = << >>
    /\ list_capacity = 0
    /\ list_buffer = NoBuffer
    /\ active_severities = {}
    /\ active_types = {}
    /\ debugObjectNameMap = << >>
    /\ debugUtilsObjectNameMap = << >>
    /\ debugUtilsQueueLabels = << >>
    /\ debugUtilsCmdBufLabels = << >>
    /\ named_marker = [h \in Objects |-> ""]
    /\ named_utils = [h \in Objects |-> ""]
    /\ last = NoCall
    /\ instance_pnext_chain \in Chains
    /\ removed_all = FALSE
    /\ debug_output_mutex = NoThread
    /\ pc = [t \in Threads |-> NotCalling]

Activate ==
    /\ Idle
    /\ UNCHANGED thrVars
    /\ \E first \in Buffers : ActivateInstanceDebugCallbacks(first)

Deactivate ==
    /\ Idle
    /\ UNCHANGED thrVars
    /\ DeactivateInstanceDebugCallbacks

\* the callback registry with the callbacks of the instance create info
NextInstance ==
    \/ CreateMessenger \/ CreateReport \/ Destroy
    \/ Activate \/ Deactivate \/ Return

SpecInstance == InitInstance /\ [][NextInstance]_vars

\* calls the threads make: a function of this header and its arguments
ThreadCalls ==
    {[fn |-> "ActivateInstanceDebugCallbacks"],
     [fn |-> "DebugReportSetUtilsObjectName", object |-> 1, name |-> <<"Foo">>],
     [fn |-> "BeginCmdDebugUtilsLabel", command_buffer |-> 1,
      label_info |-> <<[pLabelName |-> <<"A">>, color |-> "1,0,0,1"]>>],
     [fn |-> "EraseCmdDebugUtilsLabel", command_buffer |-> 1],
     [fn |-> "LogMsgLocked",
      ev |-> [msg_flags   |-> VK_DEBUG_REPORT_ERROR_BIT_EXT,
              object_type |-> VK_DEBUG_REPORT_OBJECT_TYPE_COMMAND_BUFFER_EXT,
              src_object  |-> 1,
              message     |-> "text",
              text_vuid   |-> <<"UNASSIGNED-text">>]]}

\* faulty variant of TakesLock: the sinks are invoked without the mutex; C18
\* must reject it
TakesLock_NotForDispatch(fn) ==
    fn \in {"ActivateInstanceDebugCallbacks", "layer_create_messenger_callback",
            "layer_destroy_callback", "DebugReportSetUtilsObjectName",
            "BeginCmdDebugUtilsLabel"}

\* the functions that run with debug_output_mutex locked: those that construct a
\* std::unique_lock on it (ActivateInstanceDebugCallbacks does inside its one
\* layer_create_callback), and LogMsgLocked, which must be called with it held
TakesLock(fn) ==
    fn \in {"ActivateInstanceDebugCallbacks", "layer_create_messenger_callback",
            "layer_destroy_callback", "DebugReportSetUtilsObjectName",
            "BeginCmdDebugUtilsLabel", "LogMsgLocked"}

\* the object of Init, for a chain with one messenger, and no thread in a call
InitThreads ==
    /\ debug_callback_list = << >>
    /\ list_capacity = 0
    /\ list_buffer = NoBuffer
    /\ active_severities = {}
    /\ active_types = {}
    /\ debugObjectNameMap = << >>
    /\ debugUtilsObjectNameMap = << >>
    /\ debugUtilsQueueLabels = << >>
    /\ debugUtilsCmdBufLabels = << >>
    /\ named_marker = [h \in Objects |-> ""]
    /\ named_utils = [h \in Objects |-> ""]
    /\ last = NoCall
    /\ instance_pnext_chain = <<ChainMessenger("m1")>>
    /\ removed_all = FALSE
    /\ debug_output_mutex = NoThread
    /\ pc = [t \in Threads |-> NotCalling]

\* what the function a thread is in does to the object
Effect(call) ==
    \/ /\ call.fn = "ActivateInstanceDebugCallbacks"
       /\ \E first \in Buffers : ActivateInstanceDebugCallbacks(first)
    \/ /\ call.fn = "DebugReportSetUtilsObjectName"
       /\ DebugReportSetUtilsObjectName(call.object, call.name)
    \/ /\ call.fn = "BeginCmdDebugUtilsLabel"
       /\ BeginCmdDebugUtilsLabel(call.command_buffer, call.label_info)
    \/ /\ call.fn = "EraseCmdDebugUtilsLabel"
       /\ EraseCmdDebugUtilsLabel(call.command_buffer)
    \/ /\ call.fn = "LogMsgLocked"
       /\ debug_log_msg(call.ev, {})

\* the call keeps the list and the label stacks within the bounds of the model
WithinBounds(call) ==
    /\ call.fn = "ActivateInstanceDebugCallbacks"
            => Len(debug_callback_list) < MaxCallbacks
    /\ call.fn = "BeginCmdDebugUtilsLabel" => Pushed < MaxLabels

\* a thread calls a function: it constructs the unique_lock, if the function has
\* one, which blocks while another thread owns the mutex, and is then inside
ThreadEnter ==
    \E t \in Threads, call \in ThreadCalls :
        /\ pc[t] = NotCalling
        /\ WithinBounds(call)
        /\ IF TakesLock(call.fn)
           THEN debug_output_mutex = NoThread /\ debug_output_mutex' = t
           ELSE UNCHANGED debug_output_mutex
        /\ pc' = [pc EXCEPT ![t] = [fn |-> call.fn, at |-> "inside", call |-> call]]
        /\ UNCHANGED <<regVars, nameVars, labelVars, last>>

\* the function does its work and returns; its unique_lock unlocks the mutex
ThreadLeave ==
    \E t \in Threads :
        /\ pc[t] # NotCalling
        /\ pc[t].at = "inside"
        /\ pc[t].fn \in {c.fn : c \in ThreadCalls}
        /\ Effect(pc[t].call)
        /\ debug_output_mutex' =
              IF TakesLock(pc[t].fn) THEN NoThread ELSE debug_output_mutex
        /\ pc' = [pc EXCEPT ![t] = NotCalling]

\* DeactivateInstanceDebugCallbacks is called for a chain with a descriptor and
\* starts to iterate debug_callback_list; it constructs no lock
DeactivateEnter ==
    \E t \in Threads :
        /\ pc[t] = NotCalling
        /\ Len(instance_pnext_chain) > 0
        /\ pc' = [pc EXCEPT ![t] = [fn |-> "DeactivateInstanceDebugCallbacks",
                                    at |-> "inside"]]
        /\ UNCHANGED <<regVars, nameVars, labelVars, last, debug_output_mutex>>

\* the loop over debug_callback_list has collected the handles
DeactivateSnapshot ==
    \E t \in Threads :
        /\ pc[t] # NotCalling
        /\ pc[t].fn = "DeactivateInstanceDebugCallbacks"
        /\ pc[t].at = "inside"
        /\ pc' = [pc EXCEPT ![t] =
                    [fn      |-> "DeactivateInstanceDebugCallbacks",
                     at      |-> "destroying",
                     handles |-> InstanceHandles(debug_callback_list, TRUE)
                                 \o InstanceHandles(debug_callback_list, FALSE)]]
        /\ UNCHANGED <<regVars, nameVars, labelVars, last, debug_output_mutex>>

\* layer_destroy_callback of the next collected handle locks the mutex
DeactivateLock ==
    \E t \in Threads :
        /\ pc[t] # NotCalling
        /\ pc[t].fn = "DeactivateInstanceDebugCallbacks"
        /\ pc[t].at = "destroying"
        /\ pc[t].handles # << >>
        /\ debug_output_mutex = NoThread
        /\ debug_output_mutex' = t
        /\ pc' = [pc EXCEPT ![t].at = "inside_destroy"]
        /\ UNCHANGED <<regVars, nameVars, labelVars, last>>

\* layer_destroy_callback removes the entry of the handle and unlocks
DeactivateDestroy ==
    \E t \in Threads :
        /\ pc[t] # NotCalling
        /\ pc[t].fn = "DeactivateInstanceDebugCallbacks"
        /\ pc[t].at = "inside_destroy"
        /\ layer_destroy_callback(Head(pc[t].handles))
        /\ debug_output_mutex' = NoThread
        /\ pc' = [pc EXCEPT ![t].at = "destroying", ![t].handles = Tail(pc[t].handles)]

\* DeactivateInstanceDebugCallbacks returns
DeactivateReturn ==
    \E t \in Threads :
        /\ pc[t] # NotCalling
        /\ pc[t].fn = "DeactivateInstanceDebugCallbacks"
        /\ pc[t].at = "destroying"
        /\ pc[t].handles = << >>
        /\ pc' = [pc EXCEPT ![t] = NotCalling]
        /\ UNCHANGED <<regVars, nameVars, labelVars, last, debug_output_mutex>>

\* the sinks debug_log_msg invokes for an event
SinksInvoked(ev) ==
    CallbackLoop([message |-> ComposeMessage(ev.object_type, ev.src_object, ev.message),
                  calls   |-> << >>,
                  bail    |-> FALSE],
                 1, ev, UseDefaultCallbacks(debug_callback_list), {}).calls

\* the lock-taking calls a sink can make on the object it is invoked for
ReentrantCalls == {call \in ThreadCalls : TakesLock(call.fn) /\ call.fn # "LogMsgLocked"}

\* A sink invoked by debug_log_msg calls a function of this header that locks
\* debug_output_mutex, on the same object.  std::mutex is the pthread mutex of
\* the default kind: lock() by the thread that owns it blocks for ever.  Were the
\* mutex free, the call would lock it, do its work, unlock and return to the sink.
SinkReenters ==
    \E t \in Threads, call \in ReentrantCalls :
        /\ pc[t] # NotCalling
        /\ pc[t].fn = "LogMsgLocked"
        /\ pc[t].at = "inside"
        /\ SinksInvoked(pc[t].call.ev) # << >>
        /\ WithinBounds(call)
        /\ debug_output_mutex \in {t, NoThread}
        /\ IF debug_output_mutex = t
           THEN /\ pc' = [pc EXCEPT ![t].at = "relock_blocked", ![t].call = call]
                /\ UNCHANGED <<regVars, nameVars, labelVars, last>>
           ELSE /\ pc' = [pc EXCEPT ![t].at = "reentry_returned", ![t].call = call]
                /\ Effect(call)
        /\ UNCHANGED debug_output_mutex

\* threads calling into one debug_report_data
NextThreads ==
    \/ ThreadEnter \/ ThreadLeave
    \/ DeactivateEnter \/ DeactivateSnapshot \/ DeactivateLock
    \/ DeactivateDestroy \/ DeactivateReturn
    \/ SinkReenters

SpecThreads == InitThreads /\ [][NextThreads]_vars

\* the object of Init, and a caller about to translate flags
InitFlags ==
    /\ debug_callback_list = << >>
    /\ list_capacity = 0
    /\ list_buffer = NoBuffer
    /\ active_severities = {}
    /\ active_types = {}
    /\ debugObjectNameMap = << >>
    /\ debugUtilsObjectNameMap = << >>
    /\ debugUtilsQueueLabels = << >>
    /\ debugUtilsCmdBufLabels = << >>
    /\ named_marker = [h \in Objects |-> ""]
    /\ named_utils = [h \in Objects |-> ""]
    /\ last \in FlagArgs
    /\ instance_pnext_chain = << >>
    /\ removed_all = FALSE
    /\ debug_output_mutex = NoThread
    /\ pc = [t \in Threads |-> NotCalling]

\* DebugReportFlagsToAnnotFlags(dr_flags, true, &da_severity, &da_type)
ReportToAnnot ==
    /\ last.op = "args"
    /\ LET out == DebugReportFlagsToAnnotFlags(last.dr_flags)
       IN  last' = [op          |-> "DebugReportFlagsToAnnotFlags",
                    dr_flags    |-> last.dr_flags,
                    before      |-> [da_severity |-> last.da_severity,
                                     da_type     |-> last.da_type],
                    da_severity |-> out.da_severity,
                    da_type     |-> out.da_type]
    /\ UNCHANGED <<regVars, nameVars, labelVars, thrVars>>

\* DebugAnnotFlagsToReportFlags(da_severity, da_type, &dr_flags)
AnnotToReport ==
    /\ last.op = "args"
    /\ last' = [op          |-> "DebugAnnotFlagsToReportFlags",
                from        |-> << >>,
                da_severity |-> last.da_severity,
                da_type     |-> last.da_type,
                dr_flags    |-> DebugAnnotFlagsToReportFlags(last.da_severity,
                                                             last.da_type)]
    /\ UNCHANGED <<regVars, nameVars, labelVars, thrVars>>

\* DebugAnnotFlagsToReportFlags applied to what DebugReportFlagsToAnnotFlags
\* returned; `from' keeps the legacy mask the round trip started with
AnnotBackToReport ==
    /\ last.op = "DebugReportFlagsToAnnotFlags"
    /\ last' = [op          |-> "DebugAnnotFlagsToReportFlags",
                from        |-> <<last.dr_flags>>,
                da_severity |-> last.da_severity,
                da_type     |-> last.da_type,
                dr_flags    |-> DebugAnnotFlagsToReportFlags(last.da_severity,
                                                             last.da_type)]
    /\ UNCHANGED <<regVars, nameVars, labelVars, thrVars>>

\* the two flag translations
NextFlags == ReportToAnnot \/ AnnotToReport \/ AnnotBackToReport

SpecFlags == InitFlags /\ [][NextFlags]_vars


-----------------------------------------------------------------------------
(* Properties *)

Dispatched == last.op = "debug_log_msg"

\* positions of the list whose sink the last dispatch invoked
InvokedSet == {last.calls[c].index : c \in DOMAIN last.calls}

\* union of the effective masks of the entries in the list
UnionSeverities ==
    UNION {IF IsUtils(debug_callback_list[i])
           THEN debug_callback_list[i].debug_utils_msg_flags
           ELSE DebugReportFlagsToAnnotFlags(
                    debug_callback_list[i].debug_report_msg_flags).da_severity
           : i \in DOMAIN debug_callback_list}

UnionTypes ==
    UNION {IF IsUtils(debug_callback_list[i])
           THEN debug_callback_list[i].debug_utils_msg_type
           ELSE DebugReportFlagsToAnnotFlags(
                    debug_callback_list[i].debug_report_msg_flags).da_type
           : i \in DOMAIN debug_callback_list}

\* C1: the aggregate masks equal the union of the effective masks of the entries
\* currently in the callback list (a bit of a removed entry is no longer set).
C1_AggregatesEqualUnion ==
    /\ active_severities = UnionSeverities
    /\ active_types = UnionTypes

\* C2: no two entries of the callback list carry the same sink handle.
C2_HandlesUnique ==
    \A i, j \in DOMAIN debug_callback_list :
        i # j => HandleOf(debug_callback_list[i]) # HandleOf(debug_callback_list[j])

\* a sequence back to front
Reverse(seq) == [i \in 1..Len(seq) |-> seq[Len(seq) + 1 - i]]

\* the labels of a label state most recent first: the insert label, if not empty,
\* then the pushed labels in reverse push order
MostRecentFirst(label_state) ==
    (IF label_state.insert_label.name # ""
     THEN <<[pLabelName |-> <<label_state.insert_label.name>>,
             color      |-> label_state.insert_label.color]>>
     ELSE << >>)
    \o Reverse([i \in 1..Len(label_state.labels) |->
                  [pLabelName |-> <<label_state.labels[i].name>>,
                   color      |-> label_state.labels[i].color]])

\* every pushed label of a label state has a name
AllNamed(label_state) ==
    \A i \in DOMAIN label_state.labels : label_state.labels[i].name # ""

\* C3: export yields the labels most recent first: the insert label, if not
\* empty, first, then the pushed labels in reverse push order (stated for the
\* label states whose pushed labels all have a name).
C3_ExportMostRecentFirst ==
    /\ \A q \in DOMAIN debugUtilsQueueLabels :
          AllNamed(debugUtilsQueueLabels[q]) =>
             Export(debugUtilsQueueLabels[q]) = MostRecentFirst(debugUtilsQueueLabels[q])
    /\ \A c \in DOMAIN debugUtilsCmdBufLabels :
          AllNamed(debugUtilsCmdBufLabels[c]) =>
             Export(debugUtilsCmdBufLabels[c]) = MostRecentFirst(debugUtilsCmdBufLabels[c])

\* the filter of an entry matches the event, as the interface states it
FilterMatches(item, msg_flags) ==
    IF "UTILS" \in item.callback_status
    THEN /\ item.debug_utils_msg_flags
               \cap DebugReportFlagsToAnnotFlags(msg_flags).da_severity # {}
         /\ item.debug_utils_msg_type
               \cap DebugReportFlagsToAnnotFlags(msg_flags).da_type # {}
    ELSE item.debug_report_msg_flags \cap msg_flags # {}

NonDefaultPresent ==
    \E j \in DOMAIN debug_callback_list :
        "DEFAULT" \notin debug_callback_list[j].callback_status

\* an entry the role filter lets through: not a default entry, or no other kind is present
Eligible(item) == "DEFAULT" \in item.callback_status => ~NonDefaultPresent

\* C4: in every dispatch a default sink whose filter matches is invoked if and
\* only if no non-default sink is in the callback list.
C4_DefaultOnlyWhenAlone ==
    Dispatched =>
        \A i \in DOMAIN debug_callback_list :
            ("DEFAULT" \in debug_callback_list[i].callback_status
             /\ FilterMatches(debug_callback_list[i], last.ev.msg_flags))
            => (i \in InvokedSet <=> ~NonDefaultPresent)

\* C4 witness: a default sink fires alone in a list that once held a second entry
\* whose masks (a messenger's) are still in the aggregates.
C4_Witness ==
    /\ Dispatched
    /\ Len(debug_callback_list) = 1
    /\ debug_callback_list[1].callback_status = {"DEFAULT"}
    /\ list_capacity > 1
    /\ "TYPE_GENERAL" \in active_types
    /\ InvokedSet = {1}

\* C5: a dispatch invokes every eligible sink whose filter matches exactly once,
\* in list order, also after a sink returned true, and returns true if and only
\* if an invoked sink returned true.
C5_AllInvokedInOrder ==
    Dispatched =>
        /\ \A a, b \in DOMAIN last.calls :
              a < b => last.calls[a].index < last.calls[b].index
        /\ InvokedSet = {i \in DOMAIN debug_callback_list :
                            /\ Eligible(debug_callback_list[i])
                            /\ FilterMatches(debug_callback_list[i], last.ev.msg_flags)}
        /\ last.bail = (\E c \in DOMAIN last.calls : last.calls[c].returned)

\* C5 witness: the first of two invoked sinks returned true, the second false.
C5_Witness ==
    /\ Dispatched
    /\ Len(last.calls) = 2
    /\ last.calls[1].returned
    /\ ~last.calls[2].returned
    /\ last.bail

\* C6: an eligible legacy sink is invoked iff its mask meets the event's flags, an
\* eligible modern sink iff its severity mask and its type mask both meet the
\* translated flags; each through the callback of its own scheme.
C6_SchemeFilters ==
    Dispatched =>
        /\ \A i \in DOMAIN debug_callback_list :
              Eligible(debug_callback_list[i]) =>
                 (i \in InvokedSet <=>
                    FilterMatches(debug_callback_list[i], last.ev.msg_flags))
        /\ \A c \in DOMAIN last.calls :
              LET item == debug_callback_list[last.calls[c].index]
              IN  /\ last.calls[c].function_ptr # NULL
                  /\ IF "UTILS" \in item.callback_status
                     THEN /\ last.calls[c].via = "debug_utils_callback_function_ptr"
                          /\ last.calls[c].function_ptr
                                = item.debug_utils_callback_function_ptr
                     ELSE /\ last.calls[c].via = "debug_report_callback_function_ptr"
                          /\ last.calls[c].function_ptr
                                = item.debug_report_callback_function_ptr

\* C6 witness: a modern sink whose severity mask meets the event but whose type mask
\* does not is passed over, while a legacy sink is invoked.
C6_Witness ==
    /\ Dispatched
    /\ Len(debug_callback_list) = 2
    /\ debug_callback_list[1].callback_status = {"UTILS"}
    /\ debug_callback_list[2].callback_status = {}
    /\ last.ev.msg_flags = {"REPORT_WARNING"}
    /\ InvokedSet = {2}

\* number of pieces of a composed message equal to `piece'
Occurrences(str, piece) == Cardinality({k \in DOMAIN str : str[k] = piece})

\* the message before any identifier is prepended: object prefix, " | ", text
Composed == ComposeMessage(last.ev.object_type, last.ev.src_object, last.ev.message)

\* a message that ends with the composed message
EndsWithComposed(str) ==
    /\ Len(str) >= Len(Composed)
    /\ SubSeq(str, Len(str) - Len(Composed) + 1, Len(str)) = Composed

\* C7: with an identifier present every firing legacy sink receives the composed
\* message with the identifier prepended exactly once, whatever the number of
\* legacy sinks fired before it; modern sinks receive the original message.
C7_VuidPrependedOnce ==
    (Dispatched /\ last.ev.text_vuid # NULL) =>
        \A c \in DOMAIN last.calls :
            IF last.calls[c].via = "debug_report_callback_function_ptr"
            THEN /\ EndsWithComposed(last.calls[c].message)
                 /\ Occurrences(last.calls[c].message, last.ev.text_vuid[1]) = 1
            ELSE last.calls[c].callback_data.pMessage = last.ev.message

\* C8: the name resolved for a handle is the name last given under the modern
\* scheme if there is one, else the name last given under the legacy scheme if
\* there is one, else empty.
C8_ModernNamePreferred ==
    \A h \in Objects :
        ObjectLabel(h) = (IF named_utils[h] # "" THEN named_utils[h] ELSE named_marker[h])

\* C8 witness: a handle named "Foo" under the legacy scheme whose modern name was
\* set to the empty string resolves to "Foo".
C8_Witness ==
    \E h \in Objects :
        /\ named_marker[h] = "Foo"
        /\ h \in DOMAIN debugUtilsObjectNameMap
        /\ named_utils[h] = ""
        /\ ObjectLabel(h) = "Foo"

\* C9: neither name map holds an entry whose value is the empty string.
C9_NoEmptyNameStored ==
    /\ \A h \in DOMAIN debugUtilsObjectNameMap : debugUtilsObjectNameMap[h] # ""
    /\ \A h \in DOMAIN debugObjectNameMap : debugObjectNameMap[h] # ""

\* C10: begin with a null label or a label with an empty name changes nothing,
\* hence no label stack contains a label with an empty name.
C10_NoEmptyLabelPushed ==
    /\ \A q \in DOMAIN debugUtilsQueueLabels :
          \A i \in DOMAIN debugUtilsQueueLabels[q].labels :
              debugUtilsQueueLabels[q].labels[i].name # ""
    /\ \A c \in DOMAIN debugUtilsCmdBufLabels :
          \A i \in DOMAIN debugUtilsCmdBufLabels[c].labels :
              debugUtilsCmdBufLabels[c].labels[i].name # ""

\* the map the last End call acted on, as it is now
EndedMap ==
    IF last.op = "EndQueueDebugUtilsLabel" THEN debugUtilsQueueLabels
    ELSE debugUtilsCmdBufLabels

\* the last call was an End{Queue,Cmd}DebugUtilsLabel
Ended == last.op \in {"EndQueueDebugUtilsLabel", "EndCmdDebugUtilsLabel"}

\* a sequence without its last element
AllButLast(seq) == [i \in 1..(Len(seq) - 1) |-> seq[i]]

\* C11: end(key) on a key with no stack changes nothing and creates no stack; on
\* a key with a stack it removes exactly the most recently pushed label if the
\* stack is not empty, leaves an empty stack empty, always leaves the insert
\* slot empty, and touches no other key.
C11_EndPopsMostRecent ==
    Ended =>
        LET key == last.key
            was == last.before
            now == EndedMap
        IN  IF key \notin DOMAIN was
            THEN now = was
            ELSE /\ DOMAIN now = DOMAIN was
                 /\ \A k \in DOMAIN was \ {key} : now[k] = was[k]
                 /\ now[key].insert_label.name = ""
                 /\ now[key].labels =
                        IF was[key].labels = << >> THEN << >>
                        ELSE AllButLast(was[key].labels)

\* C11 witness: after begin(k, A), begin(k, B), insert(k, C), end(k) the export
\* of k is [A]
C11_Witness ==
    /\ last.op = "EndQueueDebugUtilsLabel"
    /\ last.key \in DOMAIN last.before
    /\ Len(last.before[last.key].labels) = 2
    /\ last.before[last.key].labels[1].name = "A"
    /\ last.before[last.key].labels[2].name = "B"
    /\ last.before[last.key].insert_label.name = "C"
    /\ Export(debugUtilsQueueLabels[last.key]) =
            <<[pLabelName |-> <<"A">>, color |-> "1,0,0,1"]>>

\* C11 witness of the other cases: end on a key without a stack, and end on an
\* empty stack whose insert slot was set
C11_WitnessNoStack ==
    /\ last.op = "EndCmdDebugUtilsLabel"
    /\ last.key \notin DOMAIN last.before
    /\ last.key \notin DOMAIN debugUtilsCmdBufLabels
    /\ DOMAIN last.before # {}

\* the last call was RemoveAllMessageCallbacks, directly or from
\* layer_debug_utils_destroy_instance
RemovedAll ==
    last.op \in {"RemoveAllMessageCallbacks", "layer_debug_utils_destroy_instance"}

\* C19: after removeAll (also when run by layer_debug_utils_destroy_instance)
\* the callback list is empty and both aggregate masks are zero.
C19_RemoveAllZeroesAggregates ==
    RemovedAll =>
        /\ debug_callback_list = << >>
        /\ active_severities = {}
        /\ active_types = {}

\* C20: after removeAll and before any new registration, a dispatch of any
\* event invokes no callback and returns false.
C20_NoDispatchAfterRemoveAll ==
    (removed_all /\ Dispatched) =>
        /\ last.calls = << >>
        /\ last.bail = FALSE

\* C20 witness: an event is dispatched after removeAll cleared a list that held
\* sinks (their bits are still in the aggregate masks) and nothing is invoked
C20_Witness ==
    /\ removed_all
    /\ Dispatched
    /\ active_severities # {}
    /\ last.calls = << >>
    /\ ~last.bail

\* the five bits VkDebugReportFlagBitsEXT names
LegacyBits == {"REPORT_INFORMATION", "REPORT_WARNING", "REPORT_PERFORMANCE_WARNING",
               "REPORT_ERROR", "REPORT_DEBUG"}

\* the dominant legacy bit of a legacy mask f whose translated type mask is ty:
\* error, then the warning class, then information, then debug
Dominant(f, ty) ==
    IF "REPORT_ERROR" \in f THEN {"REPORT_ERROR"}
    ELSE IF "REPORT_WARNING" \in f \/ "REPORT_PERFORMANCE_WARNING" \in f
    THEN IF "TYPE_PERFORMANCE" \in ty
         THEN {"REPORT_PERFORMANCE_WARNING"} ELSE {"REPORT_WARNING"}
    ELSE IF "REPORT_INFORMATION" \in f THEN {"REPORT_INFORMATION"}
    ELSE IF "REPORT_DEBUG" \in f THEN {"REPORT_DEBUG"}
    ELSE {}

\* the last call completed a round trip legacy -> rich -> legacy
RoundTripped == last.op = "DebugAnnotFlagsToReportFlags" /\ last.from # << >>

\* C15: for every combination f of the five legacy bits, translating f to the
\* rich scheme and back gives the single dominant legacy bit (error, warning
\* class, information, debug), zero for f = 0, and f itself for a single bit.
C15_RoundTripDominant ==
    (RoundTripped /\ last.from[1] \subseteq LegacyBits) =>
        LET f == last.from[1]
        IN  /\ last.dr_flags = Dominant(f, last.da_type)
            /\ (f = {}) => (last.dr_flags = {})
            /\ (Cardinality(f) = 1) => (last.dr_flags = f)

\* C15 witness: error + warning maps back to error only
C15_Witness ==
    /\ RoundTripped
    /\ last.from[1] = {"REPORT_ERROR", "REPORT_WARNING"}
    /\ last.dr_flags = {"REPORT_ERROR"}

\* what one legacy bit translates to
PerBit(b) ==
    CASE b = "REPORT_PERFORMANCE_WARNING" ->
            [severity |-> {"SEVERITY_WARNING"}, type |-> {"TYPE_PERFORMANCE"}]
      [] b = "REPORT_DEBUG" ->
            [severity |-> {"SEVERITY_VERBOSE"}, type |-> {"TYPE_GENERAL", "TYPE_VALIDATION"}]
      [] b = "REPORT_INFORMATION" ->
            [severity |-> {"SEVERITY_INFO"}, type |-> {"TYPE_VALIDATION"}]
      [] b = "REPORT_WARNING" ->
            [severity |-> {"SEVERITY_WARNING"}, type |-> {"TYPE_VALIDATION"}]
      [] b = "REPORT_ERROR" ->
            [severity |-> {"SEVERITY_ERROR"}, type |-> {"TYPE_VALIDATION"}]
      [] OTHER ->
            [severity |-> {}, type |-> {}]

\* C16: legacyToRich returns the OR, over the legacy bits that are set, of the
\* per-bit results, (0, 0) when none of the five bits is set, whatever the out
\* parameters held from an earlier call.
C16_LegacyToRichIsOrOfBits ==
    (last.op = "DebugReportFlagsToAnnotFlags") =>
        /\ last.da_severity = UNION {PerBit(b).severity : b \in last.dr_flags}
        /\ last.da_type = UNION {PerBit(b).type : b \in last.dr_flags}
        /\ (last.dr_flags \cap LegacyBits = {}) =>
                (last.da_severity = {} /\ last.da_type = {})

\* C16 witness: two bits are translated while the out parameters still hold an
\* earlier result that the new one does not contain
C16_Witness ==
    /\ last.op = "DebugReportFlagsToAnnotFlags"
    /\ last.dr_flags = {"REPORT_PERFORMANCE_WARNING", "REPORT_DEBUG"}
    /\ last.before.da_severity = {"SEVERITY_ERROR"}
    /\ last.da_severity = {"SEVERITY_WARNING", "SEVERITY_VERBOSE"}
    /\ last.da_type = {"TYPE_PERFORMANCE", "TYPE_GENERAL", "TYPE_VALIDATION"}

\* the legacy bit the first matching severity selects
FirstMatch(sv, ty) ==
    IF "SEVERITY_ERROR" \in sv THEN {"REPORT_ERROR"}
    ELSE IF "SEVERITY_WARNING" \in sv
    THEN IF "TYPE_PERFORMANCE" \in ty
         THEN {"REPORT_PERFORMANCE_WARNING"} ELSE {"REPORT_WARNING"}
    ELSE IF "SEVERITY_INFO" \in sv THEN {"REPORT_INFORMATION"}
    ELSE IF "SEVERITY_VERBOSE" \in sv THEN {"REPORT_DEBUG"}
    ELSE {}

\* the four severities the translation knows
KnownSeverities ==
    {"SEVERITY_ERROR", "SEVERITY_WARNING", "SEVERITY_INFO", "SEVERITY_VERBOSE"}

\* the type mask decides: warning is the first matching severity
WarningCase(sv) == "SEVERITY_WARNING" \in sv /\ "SEVERITY_ERROR" \notin sv

\* C17: richToLegacy returns exactly one legacy bit, chosen by first match in the
\* order Error, Warning (performance warning if the type includes Performance),
\* Info, Verbose; zero when the severity has none of the four bits; the type
\* mask changes the result in the Warning case only.
C17_RichToLegacyFirstMatch ==
    (last.op = "DebugAnnotFlagsToReportFlags") =>
        /\ last.dr_flags = FirstMatch(last.da_severity, last.da_type)
        /\ IF last.da_severity \cap KnownSeverities = {}
           THEN last.dr_flags = {}
           ELSE Cardinality(last.dr_flags) = 1
        /\ ~WarningCase(last.da_severity) =>
                \A ty \in TypeValues :
                    DebugAnnotFlagsToReportFlags(last.da_severity, ty) = last.dr_flags

\* C17 witness: a severity with several bits and a Performance type gives the
\* error bit alone
C17_Witness ==
    /\ last.op = "DebugAnnotFlagsToReportFlags"
    /\ last.from = << >>
    /\ last.da_severity = {"SEVERITY_ERROR", "SEVERITY_WARNING", "SEVERITY_VERBOSE"}
    /\ last.da_type = {"TYPE_PERFORMANCE"}
    /\ last.dr_flags = {"REPORT_ERROR"}

\* the callback-creation descriptors of the chain, of either scheme, in chain order
Descriptors ==
    SelectSeq(instance_pnext_chain,
              LAMBDA st : st.sType \in {"DEBUG_UTILS_MESSENGER_CREATE_INFO",
                                        "DEBUG_REPORT_CALLBACK_CREATE_INFO"})

\* the entry is the instance-temporary entry of the descriptor
EntryOf(entry, descriptor) ==
    /\ "INSTANCE" \in entry.callback_status
    /\ ("UTILS" \in entry.callback_status)
            = (descriptor.sType = "DEBUG_UTILS_MESSENGER_CREATE_INFO")
    /\ entry.pUserData = descriptor.info.pUserData

\* C13: activateInstanceScoped appends exactly one instance-temporary entry for
\* every callback-creation descriptor of either scheme in the chain, in the
\* order the descriptors occur in the chain.
C13_ActivateRegistersEveryDescriptor ==
    (last.op = "ActivateInstanceDebugCallbacks") =>
        LET was == last.before
            now == debug_callback_list
        IN  /\ Len(now) = Len(was) + Len(Descriptors)
            /\ \A i \in 1..Len(was) : i \in DOMAIN now /\ now[i] = was[i]
            /\ \A k \in 1..Len(Descriptors) :
                    /\ Len(was) + k \in DOMAIN now
                    /\ EntryOf(now[Len(was) + k], Descriptors[k])

\* the entries of a list that do not have the instance-temporary role
WithoutInstance(list) == SelectSeq(list, LAMBDA item : "INSTANCE" \notin item.callback_status)

\* C14: deactivateInstanceScoped changes nothing when the chain holds no
\* descriptor; otherwise no instance-temporary entry remains and every other
\* entry is still present in its previous relative order.
C14_DeactivateRemovesInstanceOnly ==
    (last.op = "DeactivateInstanceDebugCallbacks") =>
        IF Descriptors = << >>
        THEN debug_callback_list = last.before
        ELSE debug_callback_list = WithoutInstance(last.before)

\* the thread is inside the shared list or maps
Inside(t) == pc[t] # NotCalling /\ pc[t].at \in {"inside", "inside_destroy"}

\* C12: every operation that mutates the shared state, and every read made for
\* a dispatch or for the snapshot of the instance-temporary handles, holds the
\* mutex while it is inside the list or maps, so no two threads are inside at
\* the same time.
C12_MutexHeldInside ==
    /\ \A t \in Threads : Inside(t) => debug_output_mutex = t
    /\ \A t, u \in Threads : (t # u) => ~(Inside(t) /\ Inside(u))

\* the thread is in a dispatch
Dispatching(t) == pc[t] # NotCalling /\ pc[t].fn = "LogMsgLocked"

\* a sink of the thread's dispatch is blocked in a lock-taking call it made
Blocked(t) == Dispatching(t) /\ pc[t].at = "relock_blocked"

\* a lock-taking call made by a sink of the thread's dispatch has returned
ReentryReturned(t) == Dispatching(t) /\ pc[t].at = "reentry_returned"

Destroyed == last.op = "layer_destroy_callback"

\* positions of `list' whose entry carries the handle, read by the entry's scheme
Carrying(list, handle) == {i \in DOMAIN list : HandleOf(list[i]) = handle}

\* `list' without the entry at position i
Without(list, i) == SubSeq(list, 1, i - 1) \o SubSeq(list, i + 1, Len(list))

\* C22: remove(handle) with a handle no entry carries leaves the callback list
\* with the same entries in the same order; with a handle an entry carries,
\* one entry carrying it is removed and no other.
C22_RemoveAbsentIsNoOp ==
    Destroyed =>
        IF Carrying(last.before, last.callback) = {}
        THEN debug_callback_list = last.before
        ELSE \E i \in Carrying(last.before, last.callback) :
                debug_callback_list = Without(last.before, i)

\* C22 witness: a remove of a handle that neither of the two entries carries
C22_Witness ==
    /\ Destroyed
    /\ Len(last.before) = 2
    /\ Carrying(last.before, last.callback) = {}
    /\ debug_callback_list = last.before

\* the aggregate masks hold every bit of the effective masks of the entries
AggregatesCover ==
    /\ UnionSeverities \subseteq active_severities
    /\ UnionTypes \subseteq active_types

\* C26: the aggregate masks are always a superset of the union of the effective
\* masks of the entries in the list, and no operation clears a bit of either
\* aggregate mask once it is set.
C26_AggregatesOnlyGrow ==
    [][/\ AggregatesCover'
       /\ active_severities \subseteq active_severities'
       /\ active_types \subseteq active_types']_vars

\* C26 witness: the only entry was removed and the aggregates keep its bits
C26_Witness ==
    /\ Destroyed
    /\ Len(last.before) = 1
    /\ debug_callback_list = << >>
    /\ active_severities = ItemSeverities(last.before[1])
    /\ active_types = ItemTypes(last.before[1])
    /\ active_severities # {}

\* positions of the list in the order the last dispatch invoked their sinks
InvokedOrder == [c \in DOMAIN last.calls |-> last.calls[c].index]

\* the smallest position of `list' whose entry carries the handle
FirstCarrying(list, handle) ==
    CHOOSE i \in Carrying(list, handle) : \A j \in Carrying(list, handle) : i <= j

ExportedFrom(map, key) ==
    IF key \in DOMAIN map THEN Export(map[key]) ELSE << >>

\* the key has no stack, or one with no pushed label and an empty insert slot
Cleared(map, key) ==
    (key \in DOMAIN map) =>
        (map[key].labels = << >> /\ map[key].insert_label.name = "")

\* a label a begin pushes: a non-null label_info with a non-null name
Pushable(label_info) == label_info # << >> /\ label_info[1].pLabelName # << >>

\* C23: reset(key) leaves the key's stack with no pushed label and an empty
\* insert slot and creates no stack for a key without one; erase(key) removes
\* the key's stack from the command buffer map; after either the export of the
\* key is empty, and a later begin on the key starts from an empty stack.
C23_ResetAndEraseClear ==
    [][/\ (last'.op = "ResetCmdDebugUtilsLabel") =>
              /\ DOMAIN debugUtilsCmdBufLabels' = DOMAIN last'.before
              /\ Cleared(debugUtilsCmdBufLabels', last'.key)
              /\ ExportedFrom(debugUtilsCmdBufLabels', last'.key) = << >>
       /\ (last'.op = "EraseCmdDebugUtilsLabel") =>
              /\ last'.key \notin DOMAIN debugUtilsCmdBufLabels'
              /\ ExportedFrom(debugUtilsCmdBufLabels', last'.key) = << >>
       /\ \A c \in CommandBuffers, l \in ScopeLabelInfos :
              (/\ Cleared(debugUtilsCmdBufLabels, c)
               /\ Pushable(l)
               /\ BeginCmdDebugUtilsLabel(c, l)) =>
                  /\ Len(debugUtilsCmdBufLabels'[c].labels) = 1
                  /\ debugUtilsCmdBufLabels'[c].labels[1].name = l[1].pLabelName[1]
                  /\ debugUtilsCmdBufLabels'[c].insert_label.name = ""]_vars

\* C23 witness: a reset of a command buffer whose stack held a pushed label and
\* a set insert slot
C23_Witness ==
    /\ last.op = "ResetCmdDebugUtilsLabel"
    /\ last.key \in DOMAIN last.before
    /\ Len(last.before[last.key].labels) = 1
    /\ last.before[last.key].insert_label.name = "C"
    /\ debugUtilsCmdBufLabels[last.key] = NewLabelState

\* the stacks of `after' and `before' are the same except for the stack of key k
OnlyKeyChanged(before, after, k) ==
    /\ (DOMAIN after) \ {k} = (DOMAIN before) \ {k}
    /\ \A j \in (DOMAIN before) \ {k} : after[j] = before[j]

\* the step changed at most the stack of command buffer c
CmdFrame(c) ==
    /\ OnlyKeyChanged(debugUtilsCmdBufLabels, debugUtilsCmdBufLabels', c)
    /\ UNCHANGED <<debugUtilsQueueLabels, debugObjectNameMap,
                   debugUtilsObjectNameMap, debug_callback_list>>

\* the step changed at most the stack of queue q
QueueFrame(q) ==
    /\ OnlyKeyChanged(debugUtilsQueueLabels, debugUtilsQueueLabels', q)
    /\ UNCHANGED <<debugUtilsCmdBufLabels, debugObjectNameMap,
                   debugUtilsObjectNameMap, debug_callback_list>>

\* C29: a label operation on key k of one label map changes at most the stack
\* of k in that map: the stacks of the other keys, the other map (also for an
\* equal handle value), both name maps and the callback list are unchanged.
C29_LabelOpTouchesOneStack ==
    [][/\ \A q \in Queues :
              \/ QueueFrame(q)
              \/ ~(\/ \E l \in ScopeLabelInfos : BeginQueueDebugUtilsLabel(q, l)
                   \/ \E l \in ScopeLabelInfos : InsertQueueDebugUtilsLabel(q, l)
                   \/ EndQueueDebugUtilsLabel(q))
       /\ \A c \in CommandBuffers :
              \/ CmdFrame(c)
              \/ ~(\/ \E l \in ScopeLabelInfos : BeginCmdDebugUtilsLabel(c, l)
                   \/ \E l \in ScopeLabelInfos : InsertCmdDebugUtilsLabel(c, l)
                   \/ EndCmdDebugUtilsLabel(c)
                   \/ ResetCmdDebugUtilsLabel(c)
                   \/ EraseCmdDebugUtilsLabel(c))]_vars

\* C29 witness: command buffer 1 was reset while command buffer 2 and the
\* queue with the same handle value 1 kept their labels
C29_Witness ==
    /\ last.op = "ResetCmdDebugUtilsLabel"
    /\ last.key = 1
    /\ 1 \in DOMAIN last.before
    /\ last.before[1] # NewLabelState
    /\ debugUtilsCmdBufLabels[1] = NewLabelState
    /\ 2 \in DOMAIN debugUtilsCmdBufLabels
    /\ debugUtilsCmdBufLabels[2] # NewLabelState
    /\ 1 \in DOMAIN debugUtilsQueueLabels
    /\ debugUtilsQueueLabels[1] # NewLabelState

\* the identifier holds one of the two sentinels
HasSentinel(vuid_text) ==
    Found(vuid_text, "UNASSIGNED-") \/ Found(vuid_text, "VUID_Undefined")

\* the identifier is in the table of specification texts
Listed(vuid_text) == \E i \in DOMAIN vuid_spec_text : vuid_spec_text[i].vuid = vuid_text

\* the message a caller of LogMsgLocked passed
GivenMessage(message) == message \in {"text", "Allocation failure"}

\* C24: an event submitted with an identifier that holds no sentinel and is not
\* in the table ends in the abort state, which nothing follows and in which no
\* sink was invoked; an identifier that holds a sentinel is not looked up, does
\* not abort and is dispatched without specification text appended.
C24_UnknownIdentifierAborts ==
    [][/\ last.op # "abort"
       /\ (last'.op = "abort") =>
              ~HasSentinel(last'.vuid_text) /\ ~Listed(last'.vuid_text)
       /\ Dispatched' =>
              /\ HasSentinel(last'.ev.text_vuid[1]) \/ Listed(last'.ev.text_vuid[1])
              /\ HasSentinel(last'.ev.text_vuid[1]) => GivenMessage(last'.ev.message)]_vars

\* C24 witness: the abort state, reached with a legacy sink registered that
\* fires on the event's flags
C24_Witness ==
    /\ last.op = "abort"
    /\ last.vuid_text = "VUID-vkQueueSubmit-00002"
    /\ \E i \in DOMAIN debug_callback_list :
          ReportFires(debug_callback_list[i], VK_DEBUG_REPORT_ERROR_BIT_EXT)

\* C25: when the identifier of an event is the unclassified sentinel, a firing
\* legacy sink receives the composed message without the "[ <id> ] " prefix,
\* also for an event submitted through LogMsgLocked.
C25_SentinelHasNoPrefix ==
    (Dispatched /\ HasSentinel(last.ev.text_vuid[1])) =>
        \A c \in DOMAIN last.calls :
            (last.calls[c].via = "debug_report_callback_function_ptr") =>
                last.calls[c].message = Composed

\* the calls of the last dispatch that went to a modern sink
ModernCalls ==
    {c \in DOMAIN last.calls : last.calls[c].via = "debug_utils_callback_function_ptr"}

\* the names of exported labels
LabelNames(labels) == [i \in DOMAIN labels |-> labels[i].pLabelName]

\* the list holds one modern sink, with severity filter Error and type filter
\* Validation
OneErrorValidationSink ==
    /\ Len(debug_callback_list) = 1
    /\ "UTILS" \in debug_callback_list[1].callback_status
    /\ debug_callback_list[1].debug_utils_msg_flags = {"SEVERITY_ERROR"}
    /\ debug_callback_list[1].debug_utils_msg_type = {"TYPE_VALIDATION"}

\* the last dispatch was of an error event on queue 1, which has a name and
\* whose label stack received begin("outer") then begin("inner")
ScenarioEvent ==
    /\ Dispatched
    /\ last.ev.msg_flags = {"REPORT_ERROR"}
    /\ last.ev.object_type = "REPORT_OBJECT_TYPE_QUEUE"
    /\ last.ev.src_object = 1
    /\ named_utils[1] # ""
    /\ 1 \in DOMAIN debugUtilsQueueLabels
    /\ Len(debugUtilsQueueLabels[1].labels) = 2
    /\ debugUtilsQueueLabels[1].labels[1].name = "outer"
    /\ debugUtilsQueueLabels[1].labels[2].name = "inner"
    /\ debugUtilsQueueLabels[1].insert_label.name = ""

\* C21: with one modern sink (severity Error, type Validation), a dispatch of
\* an error event on a named queue whose stack received begin("outer") then
\* begin("inner") invokes the sink once, with the object's name and the queue
\* labels ["inner", "outer"] and no command buffer labels, and returns what the
\* sink returned.
C21_ScenarioEndToEnd ==
    (OneErrorValidationSink /\ ScenarioEvent) =>
        /\ Len(last.calls) = 1
        /\ last.calls[1].via = "debug_utils_callback_function_ptr"
        /\ last.calls[1].callback_data.pObjects[1].pObjectName = <<named_utils[1]>>
        /\ LabelNames(last.calls[1].callback_data.pQueueLabels)
              = << <<"inner">>, <<"outer">> >>
        /\ last.calls[1].callback_data.pCmdBufLabels = << >>
        /\ last.bail = last.calls[1].returned

\* C21 witness: the scenario, with a sink that answered true
C21_Witness ==
    /\ OneErrorValidationSink
    /\ ScenarioEvent
    /\ last.bail
    /\ Len(last.calls) = 1

\* C28: a dispatch leaves the callback list, both aggregate masks, both name
\* maps and both label maps as they were when it was called.
C28_DispatchReadsOnly ==
    [][Dispatched' =>
          UNCHANGED <<debug_callback_list, active_severities, active_types,
                      debugObjectNameMap, debugUtilsObjectNameMap,
                      debugUtilsQueueLabels, debugUtilsCmdBufLabels>>]_vars

\* C28 witness: a dispatch that invoked a sink for an object without a name,
\* with a name stored for another handle in each map and labels in both maps
C28_Witness ==
    /\ Dispatched
    /\ last.calls # << >>
    /\ last.ev.src_object = 1
    /\ 1 \notin DOMAIN debugUtilsObjectNameMap
    /\ debugUtilsObjectNameMap # << >>
    /\ debugObjectNameMap # << >>
    /\ debugUtilsQueueLabels # << >>
    /\ debugUtilsCmdBufLabels # << >>

\* C30: for an event on the null handle every modern sink receives no object
\* name, no queue label and no command buffer label, whatever the object type
\* and whatever is stored under key 0; for a non-null handle at most one of
\* the two label lists is non-empty.
C30_NullHandleCarriesNothing ==
    Dispatched =>
        \A c \in ModernCalls :
            LET data == last.calls[c].callback_data
            IN  /\ (last.ev.src_object = 0) =>
                      /\ data.pObjects[1].pObjectName = NULL
                      /\ data.pQueueLabels = << >>
                      /\ data.pCmdBufLabels = << >>
                /\ (last.ev.src_object # 0) =>
                      (data.pQueueLabels = << >> \/ data.pCmdBufLabels = << >>)

\* C30 witness: a queue event on the null handle reached a modern sink while a
\* name and queue labels are stored under key 0
C30_Witness ==
    /\ Dispatched
    /\ ModernCalls # {}
    /\ last.ev.src_object = 0
    /\ last.ev.object_type = "REPORT_OBJECT_TYPE_QUEUE"
    /\ 0 \in DOMAIN debugUtilsObjectNameMap
    /\ 0 \in DOMAIN debugUtilsQueueLabels
    /\ debugUtilsQueueLabels[0].labels # << >>

\* the list holds a legacy sink and, after it, a modern sink
LegacyThenModern ==
    /\ Len(debug_callback_list) = 2
    /\ "UTILS" \notin debug_callback_list[1].callback_status
    /\ "UTILS" \in debug_callback_list[2].callback_status

\* C31: for every legacy mask m and every event flag value f over the five
\* legacy bits, if a legacy sink with mask m fires on f then a modern sink
\* registered with the translation of m fires on f too.
C31_TranslatedFilterFiresToo ==
    (Dispatched /\ LegacyThenModern) => ((1 \in InvokedSet) => (2 \in InvokedSet))

\* C31 witness: both sinks fired for a mask and an event that share one bit and
\* each have another
C31_Witness ==
    /\ Dispatched
    /\ LegacyThenModern
    /\ InvokedSet = {1, 2}
    /\ debug_callback_list[1].debug_report_msg_flags = {"REPORT_WARNING", "REPORT_ERROR"}
    /\ last.ev.msg_flags = {"REPORT_WARNING", "REPORT_DEBUG"}

\* the converse fails: the modern sink fired and the legacy sink did not, for
\* an event with two bits
C31_ConverseFails ==
    /\ Dispatched
    /\ LegacyThenModern
    /\ InvokedSet = {2}
    /\ debug_callback_list[1].debug_report_msg_flags = {"REPORT_WARNING"}
    /\ last.ev.msg_flags = {"REPORT_PERFORMANCE_WARNING", "REPORT_ERROR"}

=============================================================================
